---------------------------- MODULE Spec2Model ----------------------------
(***************************************************************************)
(* gen-voice: the bounded history store (history_manager.py).              *)
(*                                                                         *)
(* The store keeps an in-memory index (self.history, newest first), one    *)
(* payload file per entry under the storage root, and a persisted copy of  *)
(* the index (history.json).  Time is counted in whole days.               *)
(*                                                                         *)
(* The engine registry (enhanced_tts_manager.py) keeps the engines that    *)
(* could be constructed and are available, and the id of the current one.  *)
(* The generate route of app.py synthesizes with the registry, falls back  *)
(* to the placeholder generator, and archives the audio in the store.      *)
(***************************************************************************)
EXTENDS Integers, Sequences, FiniteSets, TLC

\* ------------------------------------------------------------------ bounds
\* uuid4 never repeats: ids are drawn in order from 1..MaxIds
MaxIds == 3
\* the wall clock runs from day 0 to MaxExtraDays days past the cleanup age
MaxExtraDays == 1
\* the largest max_files a store is constructed with
MaxMaxFiles == 2

\* default of HistoryManager.__init__(auto_cleanup_days=7)
DefaultCleanupDays == 7

IdSet == 1..MaxIds

Min(a, b) == IF a < b THEN a ELSE b
Max(a, b) == IF a > b THEN a ELSE b

VARIABLES
    history,            \* self.history: list of entries, newest first
    files,              \* ids whose payload file <id>.wav exists in storage_dir
    saved,              \* history.json: [state, data]
    max_files,          \* self.max_files
    auto_cleanup_days,  \* self.auto_cleanup_days
    nextId,             \* the next fresh uuid
    clock,              \* datetime.now(), in days
    env,                \* what the environment may do: [write, remove, save, oob]
    last,               \* the last call and what it returned
    added,              \* ids of the successful add_audio calls, in call order,
                        \* while nothing but add_audio has been called
    pc,                 \* per thread: the statement it is about to execute
    loc,                \* per thread: the locals of the call it is in
    round,              \* the calls that overlapped since all threads were idle
    probe,              \* per engine class: what constructing and asking it gives
    engines,            \* self.engines: the registered ids, in insertion order
    current_engine,     \* self.current_engine
    rlast,              \* the last call on the registry and what it returned
    resp,               \* the last response of the generate route
    timer,              \* the cleanup thread: where it is and how its last run ended
    seen,               \* what the last read of the store (get_history, get_stats) saw
    azure,              \* AzureTTSEngine: its speech_config and the calls running on it
    singleton,          \* the global history_manager, the cleanup threads started,
                        \* and the calls of get_history_manager in progress
    requests            \* per thread: the generate or synthesize call it is in

\* the state of the history store and of the threads that call it
storeVars == <<history, files, saved, max_files, auto_cleanup_days, nextId, clock,
               env, last, added, pc, loc, round>>

\* the state of the engine registry
registryVars == <<probe, engines, current_engine, rlast>>

vars == <<history, files, saved, max_files, auto_cleanup_days, nextId, clock,
          env, last, added, pc, loc, round,
          probe, engines, current_engine, rlast, resp, timer, seen, azure,
                   singleton, requests>>

\* the request-handler threads (and the cleanup thread) that call the store
Threads == {1, 2}

\* ------------------------------------------------------- values and helpers
\* datetime.isoformat(): the timestamp as text; text that is no ISO date
\* (valid = FALSE) can only come from an index file edited by hand
isoformat(t) == [valid |-> TRUE, t |-> t]

\* datetime.fromisoformat(): raises ValueError on text that is no ISO date
fromisoformat(s) == IF s.valid THEN [raised |-> FALSE, t |-> s.t]
                    ELSE [raised |-> TRUE, t |-> 0]

\* add_audio: `text[:200]` is kept as the preview of the text
PreviewLimit == 200

\* a text is a run of len characters that starts at offset from of one
\* endless reference text; the texts of requests start at offset 0
Text(n) == [from |-> 0, len |-> n]

\* a slip: the last k characters are taken
TextSliceLast(text, k) ==
    [from |-> text.from + text.len - Min(text.len, k), len |-> Min(text.len, k)]

\* text[:k] for k >= 0
TextSliceTo(text, k) == [from |-> text.from, len |-> Min(text.len, k)]

\* the request that is given the id: its text is short, of exactly
\* PreviewLimit characters, or longer, and its audio is a WAV header and samples
TextOf(id) ==
    CASE id = 1 -> Text(5)
      [] id = 2 -> Text(PreviewLimit)
      [] OTHER  -> Text(PreviewLimit + id)

PayloadBytes(id) == 44 + 1000 * id

\* the entry dict built by add_audio; voice, model_type, filename and
\* filepath (<id>.wav) are not looked at by the store and are left out
Entry(id, t) ==
    [id |-> id, timestamp |-> isoformat(t),
     text |-> TextSliceTo(TextOf(id), PreviewLimit), full_text |-> TextOf(id),
     size |-> PayloadBytes(id)]

IdsOf(h) == {h[i].id : i \in DOMAIN h}

\* a slip: the tail cut one place too far
PySliceFromOffByOne(s, k) == SubSeq(s, Min(k + 1, Len(s)) + 1, Len(s))

\* s[k:] with Python's clamping and negative indexing
PySliceFrom(s, k) ==
    LET n     == Len(s)
        start == IF k < 0 THEN Max(n + k, 0) ELSE Min(k, n)
    IN SubSeq(s, start + 1, n)

\* s[:k] with Python's clamping and negative indexing
PySliceTo(s, k) ==
    LET n    == Len(s)
        stop == IF k < 0 THEN Max(n + k, 0) ELSE Min(k, n)
    IN SubSeq(s, 1, stop)

\* a slip: drops the last element whatever i is
RemoveLast(s, i) == SubSeq(s, 1, Len(s) - 1)

\* list.pop(i) / list.remove(x): the list without position i
RemoveAt(s, i) == SubSeq(s, 1, i - 1) \o SubSeq(s, i + 1, Len(s))

\* the first position holding id, 0 when there is none (the for loops of
\* get_audio_file and delete_audio stop at the first match)
FirstIndex(h, id) ==
    IF \E i \in DOMAIN h : h[i].id = id
    THEN CHOOSE i \in DOMAIN h : h[i].id = id /\ \A j \in 1..(i - 1) : h[j].id # id
    ELSE 0

\* what a call returned: ok (an entry / a path / True), the id concerned (0
\* for a call that takes none), a count; had = the length of the index when it was called; again = the call
\* before it was the same call and returned ok
Ret(op, id, ok, n, had, again) ==
    [op |-> op, id |-> id, ok |-> ok, n |-> n, had |-> had, again |-> again]

\* ------------------------------------------------------------ the store
\* A store value st is [history, files, saved]; every operation below maps
\* a store value and the call's inputs to [st, ok, n].

NoIndexFile == [state |-> "absent", data |-> <<>>]

\* _load_history: the parsed index, [] when the file is absent or unreadable
\* (json.load of what json.dump wrote gives the same list back)
_load_history(sv) == IF sv.state = "ok" THEN sv.data ELSE <<>>

\* a slip: the index is not written
_save_history_skipped(st, outcome) == st

\* _save_history: rewrites history.json; an exception is logged and swallowed.
\*   "ok"       the file now holds the index
\*   "openfail" open() raised: the old file is untouched
\*   "torn"     open() truncated the file and json.dump raised: unreadable
_save_history(st, outcome) ==
    CASE outcome = "ok"       -> [st EXCEPT !.saved = [state |-> "ok", data |-> st.history]]
      [] outcome = "openfail" -> st
      [] outcome = "torn"     -> [st EXCEPT !.saved = [state |-> "corrupt", data |-> <<>>]]

\* a slip: the file is reported deleted and left on disk
_delete_audio_file_kept(fs, id, rmFail) == [files |-> fs, deleted |-> id \in fs]

\* _delete_audio_file: True iff the file existed and os.remove succeeded;
\* rmFail is the set of ids whose os.remove raises (caught, logged)
_delete_audio_file(fs, id, rmFail) ==
    IF id \in fs /\ id \notin rmFail
    THEN [files |-> fs \ {id}, deleted |-> TRUE]
    ELSE [files |-> fs, deleted |-> FALSE]

\* for entry in seq: _delete_audio_file(entry), counting the True results
RECURSIVE DeleteAll(_, _, _)
DeleteAll(seq, fs, rmFail) ==
    IF seq = <<>> THEN [files |-> fs, count |-> 0]
    ELSE LET d    == _delete_audio_file(fs, Head(seq).id, rmFail)
             rest == DeleteAll(Tail(seq), d.files, rmFail)
         IN [files |-> rest.files, count |-> rest.count + (IF d.deleted THEN 1 ELSE 0)]

\* a slip: the exception is swallowed and add_audio goes on
WritePayloadIgnoresError(fs, id, wr) ==
    [files |-> IF wr = "nofile" THEN fs ELSE fs \cup {id}, raised |-> FALSE]

\* the try block of add_audio that writes the payload file:
\*   "ok"      the file is written
\*   "nofile"  open() raised: no file, the exception is caught
\*   "partial" open() created the file and write() raised: the file stays
WritePayload(fs, id, wr) ==
    CASE wr = "ok"      -> [files |-> fs \cup {id}, raised |-> FALSE]
      [] wr = "nofile"  -> [files |-> fs, raised |-> TRUE]
      [] wr = "partial" -> [files |-> fs \cup {id}, raised |-> TRUE]

\* add_audio(text, voice, model_type, audio_data) with the fresh id and the
\* timestamp it takes; ok = an entry is returned (not None)
add_audio(st, maxFiles, id, now, wr, rmFail, sv) ==
    LET w == WritePayload(st.files, id, wr) IN
    IF w.raised THEN [st |-> [st EXCEPT !.files = w.files], ok |-> FALSE, n |-> 0]
    ELSE
      LET inserted == <<Entry(id, now)>> \o st.history
          over     == Len(inserted) > maxFiles
          del      == IF over
                      THEN DeleteAll(PySliceFrom(inserted, maxFiles), w.files, rmFail)
                      ELSE [files |-> w.files, count |-> 0]
          kept     == IF over THEN PySliceTo(inserted, maxFiles) ELSE inserted
          st1      == [st EXCEPT !.history = kept, !.files = del.files]
      IN [st |-> _save_history(st1, sv), ok |-> TRUE, n |-> 0]

\* get_history(limit): `if limit:` is false for None and for 0
get_history(st, limit, hasLimit) ==
    IF hasLimit /\ limit # 0 THEN PySliceTo(st.history, limit) ELSE st.history

\* sum of entry.get("size", 0) over the entries
RECURSIVE TotalSize(_)
TotalSize(h) == IF h = <<>> THEN 0 ELSE Head(h).size + TotalSize(Tail(h))

\* a slip: the files on disk are counted instead of the entries
get_stats_of_files(st) ==
    [total_files |-> Cardinality(st.files), total_size |-> TotalSize(st.history)]

\* get_stats(): total_files and total_size of the index in memory
\* (total_size_mb, storage_dir and auto_cleanup_days are left out)
get_stats(st) ==
    [total_files |-> Len(st.history), total_size |-> TotalSize(st.history)]

\* get_audio_file(audio_id): the path when entry and file exist; a matching
\* entry whose file is missing is removed and the index saved
get_audio_file(st, id, sv) ==
    LET i == FirstIndex(st.history, id) IN
    IF i = 0 THEN [st |-> st, ok |-> FALSE, n |-> 0]
    ELSE IF id \in st.files THEN [st |-> st, ok |-> TRUE, n |-> 0]
    ELSE [st |-> _save_history([st EXCEPT !.history = RemoveAt(@, i)], sv),
          ok |-> FALSE, n |-> 0]

\* a slip: the file is deleted and the entry stays in the index
delete_audio_keeps_entry(st, id, rmFail, sv) ==
    LET i == FirstIndex(st.history, id) IN
    IF i = 0 THEN [st |-> st, ok |-> FALSE, n |-> 0]
    ELSE LET d == _delete_audio_file(st.files, id, rmFail)
         IN [st |-> _save_history([st EXCEPT !.files = d.files], sv),
             ok |-> TRUE, n |-> 0]

\* delete_audio(audio_id)
delete_audio(st, id, rmFail, sv) ==
    LET i == FirstIndex(st.history, id) IN
    IF i = 0 THEN [st |-> st, ok |-> FALSE, n |-> 0]
    ELSE LET d   == _delete_audio_file(st.files, id, rmFail)
             st1 == [st EXCEPT !.files = d.files, !.history = RemoveAt(@, i)]
         IN [st |-> _save_history(st1, sv), ok |-> TRUE, n |-> 0]

\* a slip: the index is cleared and the files stay
clear_all_index_only(st, rmFail, sv) ==
    [st |-> _save_history([st EXCEPT !.history = <<>>], sv), ok |-> TRUE, n |-> 0]

\* a slip: count is advanced for every entry, deleted or not
clear_all_counts_entries(st, rmFail, sv) ==
    LET d   == DeleteAll(st.history, st.files, rmFail)
        st1 == [st EXCEPT !.files = d.files, !.history = <<>>]
    IN [st |-> _save_history(st1, sv), ok |-> TRUE, n |-> Len(st.history)]

\* clear_all(): returns the number of files deleted
clear_all(st, rmFail, sv) ==
    LET d   == DeleteAll(st.history, st.files, rmFail)
        st1 == [st EXCEPT !.files = d.files, !.history = <<>>]
    IN [st |-> _save_history(st1, sv), ok |-> TRUE, n |-> d.count]

\* a slip: an entry whose timestamp cannot be parsed is taken for expired
CleanupStepUnparsedExpired(acc, e, cutoff, rmFail) ==
    LET p == fromisoformat(e.timestamp) IN
    IF p.raised \/ p.t < cutoff
    THEN LET d == _delete_audio_file(acc.files, e.id, rmFail)
         IN [acc EXCEPT !.files = d.files,
                        !.removed_count = @ + (IF d.deleted THEN 1 ELSE 0)]
    ELSE [acc EXCEPT !.new_history = Append(@, e)]

\* one pass of the loop of cleanup_old_files over entry e
\* acc = [files, new_history, removed_count]
CleanupStep(acc, e, cutoff, rmFail) ==
    LET p == fromisoformat(e.timestamp) IN
    IF p.raised
    THEN [acc EXCEPT !.new_history = Append(@, e)]
    ELSE IF p.t < cutoff
    THEN LET d == _delete_audio_file(acc.files, e.id, rmFail)
         IN [acc EXCEPT !.files = d.files,
                        !.removed_count = @ + (IF d.deleted THEN 1 ELSE 0)]
    ELSE [acc EXCEPT !.new_history = Append(@, e)]

RECURSIVE CleanupLoop(_, _, _, _)
CleanupLoop(seq, acc, cutoff, rmFail) ==
    IF seq = <<>> THEN acc
    ELSE CleanupLoop(Tail(seq), CleanupStep(acc, Head(seq), cutoff, rmFail),
                     cutoff, rmFail)

\* a slip: the test of auto_cleanup_days is left out
cleanup_old_files_any_age(st, days, now, rmFail, sv) ==
    LET cutoff == now - days
        acc    == CleanupLoop(st.history,
                              [files |-> st.files, new_history |-> <<>>,
                               removed_count |-> 0],
                              cutoff, rmFail)
        st1    == [st EXCEPT !.files = acc.files]
    IN IF acc.removed_count > 0
       THEN [st |-> _save_history([st1 EXCEPT !.history = acc.new_history], sv),
             ok |-> TRUE, n |-> acc.removed_count]
       ELSE [st |-> st1, ok |-> TRUE, n |-> 0]

\* cleanup_old_files(): returns removed_count
cleanup_old_files(st, days, now, rmFail, sv) ==
    IF days <= 0 THEN [st |-> st, ok |-> TRUE, n |-> 0]
    ELSE
      LET cutoff == now - days
          acc    == CleanupLoop(st.history,
                                [files |-> st.files, new_history |-> <<>>,
                                 removed_count |-> 0],
                                cutoff, rmFail)
          st1    == [st EXCEPT !.files = acc.files]
      IN IF acc.removed_count > 0
         THEN [st |-> _save_history([st1 EXCEPT !.history = acc.new_history], sv),
               ok |-> TRUE, n |-> acc.removed_count]
         ELSE [st |-> st1, ok |-> TRUE, n |-> 0]

\* ------------------------------------------------------ the engine registry
\* None, as the value of self.current_engine and of an engine_id not given
None == "None"

\* _load_engines: the candidate classes, in the order they are tried
engine_classes == <<"GoogleTTSEngine", "CoquiTTSEngine", "KittenTTSEngine",
                    "OpenAITTSEngine", "AzureTTSEngine">>

\* class_name[:-9].lower(): the class name without 'TTSEngine', in lower case
engine_id_of(class_name) ==
    CASE class_name = "GoogleTTSEngine" -> "google"
      [] class_name = "CoquiTTSEngine"  -> "coqui"
      [] class_name = "KittenTTSEngine" -> "kitten"
      [] class_name = "OpenAITTSEngine" -> "openai"
      [] class_name = "AzureTTSEngine"  -> "azure"

\* what engine_class() followed by is_available() can give in a deployment:
\* the simulated engines are always available; the others are unavailable
\* when their package or key is missing, and their constructor raises when
\* the package fails otherwise than by ImportError
ProbeOutcomes(class_name) ==
    IF class_name \in {"CoquiTTSEngine", "KittenTTSEngine"}
    THEN {"available"}
    ELSE {"available", "unavailable", "raises"}

Deployments ==
    {pr \in [{engine_classes[i] : i \in DOMAIN engine_classes} ->
                {"available", "unavailable", "raises"}] :
        \A c \in DOMAIN pr : pr[c] \in ProbeOutcomes(c)}

\* the ids a caller may pass: the five engines and one id of no engine
EngineIds == {engine_id_of(engine_classes[i]) : i \in DOMAIN engine_classes}
UnknownId == "espeak"
CallerIds == EngineIds \cup {UnknownId}

\* the keys of a dict, in insertion order
Keys(seq) == {seq[i] : i \in DOMAIN seq}

\* d[k] = v on a dict: a new key goes last, a present key keeps its place
DictSet(keys, k) == IF k \in Keys(keys) THEN keys ELSE Append(keys, k)

\* a slip: the loop over the candidates ends at the first constructor that raises
RECURSIVE LoadLoopStopsOnRaise(_, _, _)
LoadLoopStopsOnRaise(classes, pr, reg) ==
    IF classes = <<>> \/ pr[Head(classes)] = "raises" THEN reg
    ELSE LoadLoopStopsOnRaise(Tail(classes), pr,
            IF pr[Head(classes)] = "available"
            THEN DictSet(reg, engine_id_of(Head(classes))) ELSE reg)

\* the loop of _load_engines: an engine is registered when its constructor
\* returns and is_available() is true; an exception is logged and skipped
RECURSIVE LoadLoop(_, _, _)
LoadLoop(classes, pr, reg) ==
    IF classes = <<>> THEN reg
    ELSE LoadLoop(Tail(classes), pr,
            IF pr[Head(classes)] = "available"
            THEN DictSet(reg, engine_id_of(Head(classes))) ELSE reg)

\* a slip: the default engine is the last one registered
DefaultEngineLast(reg) ==
    IF reg # <<>> THEN reg[Len(reg)] ELSE None

\* the default engine: 'google' when registered, else the first key
DefaultEngine(reg) ==
    IF "google" \in Keys(reg) THEN "google"
    ELSE IF reg # <<>> THEN reg[1]
    ELSE None

\* _load_engines(): the registry after construction
_load_engines(pr) ==
    LET reg == LoadLoop(engine_classes, pr, <<>>)
    IN [engines |-> reg, current_engine |-> DefaultEngine(reg)]

\* get_voices() of each engine: the ids of its voices
EngineVoices(id) ==
    CASE id = "google" -> <<"en-us-standard", "en-us-slow", "en-uk-standard",
                            "en-au-standard", "en-ca-standard", "en-in-standard",
                            "zh-cn-standard", "zh-tw-standard">>
      [] id = "coqui"  -> <<"ljspeech", "vctk-p225", "vctk-p226", "vctk-p227",
                            "jenny", "ryan">>
      [] id = "kitten" -> <<"kitten-voice-1", "kitten-voice-2", "kitten-voice-3",
                            "kitten-voice-4">>
      [] id = "openai" -> <<"alloy", "echo", "fable", "onyx", "nova", "shimmer">>
      [] id = "azure"  -> <<"en-US-AriaNeural", "en-US-DavisNeural",
                            "en-US-JennyNeural", "en-US-GuyNeural",
                            "en-GB-SoniaNeural", "en-GB-RyanNeural",
                            "zh-CN-XiaoxiaoNeural", "zh-CN-YunxiNeural">>

\* errors and audio as values
NoError == [type |-> "none", from |-> "none"]
EngineNotAvailable == [type |-> "ValueError", from |-> "registry"]
EngineError(id) == [type |-> "Exception", from |-> id]
NoAudio == [by |-> "none"]
AudioOf(id) == [by |-> id]

\* how synthesize of engine id can end on a text: the simulated engines
\* normalise by the peak of the samples, which raises on an empty text; the
\* online engines raise when the service or a package fails
SynthOutcomes(id, text) ==
    IF id \in {"coqui", "kitten"}
    THEN (IF text = "" THEN {"raises"} ELSE {"ok"})
    ELSE {"ok", "raises"}

\* the registry as a value
Registry == [engines |-> engines, current_engine |-> current_engine]

\* what a call on the registry gives: the registry after it, the value
\* returned, the exception raised, and the engines whose synthesize ran
RegRet(reg, ret, raised, invoked) ==
    [reg |-> reg, ret |-> ret, raised |-> raised, invoked |-> invoked]

\* a slip: the current flag compares with the first key
get_available_engines_first(reg) ==
    [i \in DOMAIN reg.engines |->
        [id |-> reg.engines[i], current |-> (reg.engines[i] = reg.engines[1])]]

\* get_available_engines(): one descriptor per registered engine
get_available_engines(reg) ==
    [i \in DOMAIN reg.engines |->
        [id |-> reg.engines[i], current |-> (reg.engines[i] = reg.current_engine)]]

\* a slip: any id is made current
switch_engine_unchecked(reg, engine_id) ==
    RegRet([reg EXCEPT !.current_engine = engine_id], TRUE, NoError, <<>>)

\* a slip: the engine is looked up, which raises for an id that is no key
switch_engine_lookup(reg, engine_id) ==
    IF engine_id \in Keys(reg.engines)
    THEN RegRet([reg EXCEPT !.current_engine = engine_id], TRUE, NoError, <<>>)
    ELSE RegRet(reg, FALSE, [type |-> "KeyError", from |-> "registry"], <<>>)

\* switch_engine(engine_id)
switch_engine(reg, engine_id) ==
    IF engine_id \in Keys(reg.engines)
    THEN RegRet([reg EXCEPT !.current_engine = engine_id], TRUE, NoError, <<>>)
    ELSE RegRet(reg, FALSE, NoError, <<>>)

\* a slip: an id that is not registered falls back to the current engine
ResolveOrCurrent(reg, engine_id) ==
    IF engine_id \in Keys(reg.engines) THEN engine_id ELSE reg.current_engine

\* engine_id or self.current_engine: None and '' count as not given
Resolve(reg, engine_id) ==
    IF engine_id \in {None, ""} THEN reg.current_engine ELSE engine_id

\* a slip: the engine is subscripted without the membership test
get_voices_subscript(reg, engine_id) ==
    LET id == Resolve(reg, engine_id) IN
    IF id \in Keys(reg.engines)
    THEN RegRet(reg, EngineVoices(id), NoError, <<>>)
    ELSE RegRet(reg, <<>>, [type |-> "KeyError", from |-> id], <<>>)

\* get_voices(engine_id=None)
get_voices(reg, engine_id) ==
    LET id == Resolve(reg, engine_id) IN
    IF id \notin {None, ""} /\ id \in Keys(reg.engines)
    THEN RegRet(reg, EngineVoices(id), NoError, <<>>)
    ELSE RegRet(reg, <<>>, NoError, <<>>)

\* a slip: when the engine raises, the first registered engine is tried next
synthesize_retrying(reg, engine_id, out) ==
    LET id == Resolve(reg, engine_id) IN
    IF id \notin {None, ""} /\ id \in Keys(reg.engines)
    THEN IF out = "ok"
         THEN RegRet(reg, AudioOf(id), NoError, <<id>>)
         ELSE RegRet(reg, AudioOf(reg.engines[1]), NoError, <<id, reg.engines[1]>>)
    ELSE RegRet(reg, NoAudio, EngineNotAvailable, <<>>)

\* synthesize(text, voice, engine_id=None); out is how the engine's
\* synthesize ends
synthesize(reg, engine_id, out) ==
    LET id == Resolve(reg, engine_id) IN
    IF id \notin {None, ""} /\ id \in Keys(reg.engines)
    THEN IF out = "ok"
         THEN RegRet(reg, AudioOf(id), NoError, <<id>>)
         ELSE RegRet(reg, NoAudio, EngineError(id), <<id>>)
    ELSE RegRet(reg, NoAudio, EngineNotAvailable, <<>>)

\* ------------------------------------------------------------ the machine
Store == [history |-> history, files |-> files, saved |-> saved]

\* the outcomes the environment allows
WriteOutcomes == IF env.write THEN {"ok", "nofile", "partial"} ELSE {"ok"}
SaveOutcomes  == IF env.save THEN {"ok", "openfail", "torn"} ELSE {"ok"}
\* the sets of payload files, among those of ids, whose os.remove may raise
RemoveFailures(ids) == IF env.remove THEN SUBSET (ids \cap files) ELSE {{}}

\* nothing has been read from the store yet
NoRead == [op |-> "none"]

\* AzureTTSEngine.__init__: the SpeechConfig carries no voice name, and no
\* call of synthesize is running
NoSynthesis ==
    [voice_name |-> "",
     calls |-> [t \in Threads |-> [pc |-> "idle", voice |-> "", uses |-> "", spoke |-> ""]]]

\* the threads that call get_history_manager
Callers == 1..3

\* before the first call of get_history_manager: the global is None and no
\* cleanup thread runs
NotObtained ==
    [history_manager |-> None, cleanup_threads |-> <<>>,
     calls |-> [t \in Callers |-> "idle"]]

\* after load_tts_models: the global names the store, whose __init__ has
\* started the cleanup thread when auto_cleanup_days > 0
Obtained(days) ==
    [history_manager |-> "HistoryManager",
     cleanup_threads |-> IF days > 0 THEN <<"sleep">> ELSE <<>>,
     calls |-> [t \in Callers |-> "idle"]]

\* no thread is in a generate or synthesize call
NoRequest == [pc |-> "idle", route |-> "none", arg |-> None, model_type |-> None,
              was |-> None, id |-> None, invoked |-> <<>>, by |-> None,
              status |-> 0]
NoRequests == [t \in Threads |-> NoRequest]

\* the locals of a thread that is in no call
NoLocals == [op |-> "none", id |-> 0, now |-> 0, i |-> 0, it |-> 0,
             entry |-> <<>>, tail |-> <<>>, new_history |-> <<>>,
             removed_count |-> 0, live |-> FALSE, snap |-> <<>>]

\* no call has started since all threads were idle
NoRound == [start |-> [history |-> <<>>, files |-> {}], calls |-> <<>>]

\* a deployment without the packages and keys of the online engines
Offline ==
    [c \in {engine_classes[i] : i \in DOMAIN engine_classes} |->
        IF c \in {"CoquiTTSEngine", "KittenTTSEngine"} THEN "available"
        ELSE "unavailable"]

\* no call on the registry since EnhancedTTSManager.__init__
NoCall == [op |-> "load", arg |-> None, text |-> "", out |-> "none", ret |-> TRUE,
           raised |-> NoError, invoked |-> <<>>, was |-> None]

\* no request on the generate or the download route yet
NoResponse == [route |-> "none", status |-> 0, text |-> "none", synth |-> "none",
               demo |-> "none", encode |-> "none", archive |-> "none",
               fallbacks |-> 0, audio |-> NoAudio, engine |-> None]

\* the registry as EnhancedTTSManager.__init__ leaves it in deployment pr
InitRegistry(pr) ==
    /\ azure = NoSynthesis
    /\ requests = NoRequests
    /\ probe = pr
    /\ engines = _load_engines(pr).engines
    /\ current_engine = _load_engines(pr).current_engine
    /\ rlast = NoCall

\* the store as HistoryManager.__init__ leaves it on a fresh storage root;
\* the cleanup thread is started, and sleeps, when auto_cleanup_days > 0
InitHistoryWith(e, days, sizes) ==
    /\ seen = NoRead
    /\ singleton = Obtained(days)
    /\ timer = [pc |-> IF days > 0 THEN "sleep" ELSE "none", ended |-> "none"]
    /\ saved = NoIndexFile
    /\ history = _load_history(saved)
    /\ files = {}
    /\ max_files \in sizes
    /\ auto_cleanup_days = days
    /\ nextId = 1
    /\ clock = 0
    /\ env = e
    /\ last = Ret("init", 0, TRUE, 0, 0, FALSE)
    /\ added = <<>>
    /\ pc = [t \in Threads |-> "idle"]
    /\ loc = [t \in Threads |-> NoLocals]
    /\ round = NoRound

\* a store constructed with room for at least one entry
InitHistory(e, days) == InitHistoryWith(e, days, 1..MaxMaxFiles)

\* the application after start-up, before any request
InitStore(e, days) ==
    /\ InitHistory(e, days)
    /\ InitRegistry(Offline)
    /\ resp = NoResponse

\* a reliable disk; payload files may be removed behind the store's back
Init == InitStore([write |-> FALSE, remove |-> FALSE, save |-> FALSE, oob |-> TRUE],
                 DefaultCleanupDays)

Commit(r, op, id) ==
    /\ history' = r.st.history
    /\ files' = r.st.files
    /\ saved' = r.st.saved
    /\ last' = Ret(op, id, r.ok, r.n, Len(history),
                  last.op = op /\ last.id = id /\ last.ok)
    /\ UNCHANGED <<pc, loc, round>>
    /\ UNCHANGED <<registryVars, resp, timer, seen, azure,
                   singleton, requests>>

AddAudio ==
    /\ nextId <= MaxIds
    /\ \E wr \in WriteOutcomes, rmFail \in RemoveFailures(IdsOf(history)),
          sv \in SaveOutcomes :
         LET r == add_audio(Store, max_files, nextId, clock, wr, rmFail, sv) IN
         /\ Commit(r, "add", nextId)
         /\ added' = IF last.op \in {"init", "add"} /\ r.ok /\ Len(added) = nextId - 1
                     THEN Append(added, nextId) ELSE <<>>
    /\ nextId' = nextId + 1
    /\ UNCHANGED <<max_files, auto_cleanup_days, clock, env>>

GetAudioFile ==
    /\ \E id \in IdSet, sv \in SaveOutcomes :
         Commit(get_audio_file(Store, id, sv), "get_file", id)
    /\ added' = <<>>
    /\ UNCHANGED <<max_files, auto_cleanup_days, nextId, clock, env>>

DeleteAudio ==
    /\ \E id \in IdSet : \E rmFail \in RemoveFailures({id}), sv \in SaveOutcomes :
         Commit(delete_audio(Store, id, rmFail, sv), "delete", id)
    /\ added' = <<>>
    /\ UNCHANGED <<max_files, auto_cleanup_days, nextId, clock, env>>

ClearAll ==
    /\ \E rmFail \in RemoveFailures(IdsOf(history)), sv \in SaveOutcomes :
         Commit(clear_all(Store, rmFail, sv), "clear", 0)
    /\ added' = <<>>
    /\ UNCHANGED <<max_files, auto_cleanup_days, nextId, clock, env>>

\* run by the cleanup thread after its sleep, or by the /api/cleanup route
CleanupOldFiles ==
    /\ \E rmFail \in RemoveFailures(IdsOf(history)), sv \in SaveOutcomes :
         Commit(cleanup_old_files(Store, auto_cleanup_days, clock, rmFail, sv),
                "cleanup", 0)
    /\ added' = <<>>
    /\ UNCHANGED <<max_files, auto_cleanup_days, nextId, clock, env>>

\* the process is restarted: __init__ loads the index again
Restart ==
    /\ history' = _load_history(saved)
    /\ last' = Ret("restart", 0, TRUE, 0, Len(history), FALSE)
    /\ added' = <<>>
    /\ UNCHANGED <<files, saved, max_files, auto_cleanup_days, nextId, clock, env,
                   pc, loc, round, registryVars, resp, timer, seen, azure,
                   singleton, requests>>

\* a day passes
Tick ==
    /\ clock < auto_cleanup_days + MaxExtraDays
    /\ clock' = clock + 1
    /\ UNCHANGED <<history, files, saved, max_files, auto_cleanup_days, nextId,
                   env, last, added, pc, loc, round, registryVars, resp, timer, seen, azure,
                   singleton, requests>>

\* somebody else removes a payload file from the storage root
OutOfBandDelete ==
    /\ env.oob
    /\ \E id \in files : files' = files \ {id}
    /\ last' = Ret("oob", 0, TRUE, 0, Len(history), FALSE)
    /\ added' = <<>>
    /\ UNCHANGED <<history, saved, max_files, auto_cleanup_days, nextId, clock, env,
                   pc, loc, round, registryVars, resp, timer, seen, azure,
                   singleton, requests>>

Next ==
    \/ AddAudio
    \/ GetAudioFile
    \/ DeleteAudio
    \/ ClearAll
    \/ CleanupOldFiles
    \/ Restart
    \/ Tick
    \/ OutOfBandDelete

Spec == Init /\ [][Next]_vars

\* somebody edits history.json: the timestamp of an entry is no longer an
\* ISO date (or is missing); the store reads it at the next restart
EditTimestamp ==
    /\ env.oob
    /\ saved.state = "ok"
    /\ \E i \in DOMAIN saved.data :
         /\ saved.data[i].timestamp.valid
         /\ saved' = [saved EXCEPT !.data[i].timestamp = [valid |-> FALSE, t |-> 0]]
    /\ last' = Ret("edit", 0, TRUE, 0, Len(history), FALSE)
    /\ added' = <<>>
    /\ UNCHANGED <<history, files, max_files, auto_cleanup_days, nextId, clock, env,
                   pc, loc, round, registryVars, resp, timer, seen, azure,
                   singleton, requests>>

\* entries are added and age, the index file is edited, the store is
\* restarted and cleaned up
NextEdited ==
    \/ AddAudio
    \/ CleanupOldFiles
    \/ Restart
    \/ Tick
    \/ EditTimestamp

SpecEdited == Init /\ [][NextEdited]_vars

\* a store constructed with max_files -1, 0 or 1, on a reliable disk that
\* nobody else touches
InitAnySize ==
    /\ InitHistoryWith([write |-> FALSE, remove |-> FALSE, save |-> FALSE, oob |-> FALSE],
                       DefaultCleanupDays, {0 - 1, 0, 1})
    /\ InitRegistry(Offline)
    /\ resp = NoResponse

NextAnySize ==
    \/ AddAudio
    \/ GetAudioFile
    \/ DeleteAudio
    \/ ClearAll
    \/ CleanupOldFiles
    \/ Tick

SpecAnySize == InitAnySize /\ [][NextAnySize]_vars

\* a store constructed with auto_cleanup_days 0 or negative: no cleanup
\* thread is started, the cleanup route can still be called
InitNoCleanup ==
    \E days \in {-1, 0} :
       InitStore([write |-> FALSE, remove |-> FALSE, save |-> FALSE, oob |-> TRUE],
                 days)

SpecNoCleanup == InitNoCleanup /\ [][Next]_vars

\* a disk on which any write or removal may fail; nobody else touches the
\* storage root; the store is constructed with auto_cleanup_days = 1
InitFaulty == InitStore([write |-> TRUE, remove |-> TRUE, save |-> TRUE, oob |-> FALSE], 1)

NextFaulty ==
    \/ AddAudio
    \/ GetAudioFile
    \/ DeleteAudio
    \/ ClearAll
    \/ CleanupOldFiles
    \/ Restart
    \/ Tick

SpecFaulty == InitFaulty /\ [][NextFaulty]_vars

\* a disk on which only writing a payload file may fail
InitWriteFail ==
    InitStore([write |-> TRUE, remove |-> FALSE, save |-> FALSE, oob |-> FALSE], 1)

SpecWriteFail == InitWriteFail /\ [][NextFaulty]_vars

\* ------------------------------------------------- calls that interleave
\* The routes of app.py run in concurrent request threads and the cleanup
\* thread runs beside them; HistoryManager takes no lock.  Each action below
\* is one statement of a method, executed by thread t.

\* the list object a loop of thread t iterates: self.history as long as no
\* other thread has rebound the attribute, else the object it started on
View(t) == IF loc[t].live THEN history ELSE loc[t].snap

\* thread t rebinds self.history: loops of other threads keep the old object
Rebound(t) ==
    [u \in Threads |->
        IF u # t /\ loc[u].live
        THEN [loc[u] EXCEPT !.live = FALSE, !.snap = history]
        ELSE loc[u]]

CanStart(t) ==
    /\ pc[t] = "idle"
    /\ \A k \in DOMAIN round.calls : round.calls[k].t # t

StartCall(t, op, id, now) ==
    round' = [start |-> IF round.calls = <<>>
                        THEN [history |-> history, files |-> files]
                        ELSE round.start,
              calls |-> Append(round.calls, [t |-> t, op |-> op, id |-> id, now |-> now])]

Goto(t, label) == pc' = [pc EXCEPT ![t] = label]
Return(t) == pc' = [pc EXCEPT ![t] = "idle"] /\ loc' = [loc EXCEPT ![t] = NoLocals]
Fixed == UNCHANGED <<max_files, auto_cleanup_days, env, last, added, clock,
                     registryVars, resp, timer, seen, azure,
                   singleton, requests>>

\* add_audio, lines 56-57: the id and the timestamp are taken
BeginAdd(t) ==
    /\ CanStart(t) /\ nextId <= MaxIds
    /\ StartCall(t, "add", nextId, clock)
    /\ nextId' = nextId + 1
    /\ loc' = [loc EXCEPT ![t] = [NoLocals EXCEPT !.op = "add", !.id = nextId, !.now = clock]]
    /\ Goto(t, "a_write")
    /\ Fixed /\ UNCHANGED <<history, files, saved>>

\* add_audio, lines 64-66: the payload file is written
AddWrite(t) ==
    /\ pc[t] = "a_write"
    /\ files' = WritePayload(files, loc[t].id, "ok").files
    /\ Goto(t, "a_insert")
    /\ Fixed /\ UNCHANGED <<history, saved, nextId, loc, round>>

\* add_audio, line 85: self.history.insert(0, entry)
AddInsert(t) ==
    /\ pc[t] = "a_insert"
    /\ history' = <<Entry(loc[t].id, loc[t].now)>> \o history
    /\ Goto(t, "a_check")
    /\ Fixed /\ UNCHANGED <<files, saved, nextId, loc, round>>

\* add_audio, lines 88-90: the overflow test and the copy of the tail
AddCheck(t) ==
    /\ pc[t] = "a_check"
    /\ IF Len(history) > max_files
       THEN /\ loc' = [loc EXCEPT ![t].tail = PySliceFrom(history, max_files)]
            /\ Goto(t, "a_trim")
       ELSE /\ Goto(t, "a_save") /\ UNCHANGED loc
    /\ Fixed /\ UNCHANGED <<history, files, saved, nextId, round>>

\* add_audio, line 91: _delete_audio_file(old_entry) for the next old entry
AddTrimDelete(t) ==
    /\ pc[t] = "a_trim" /\ loc[t].tail # <<>>
    /\ files' = _delete_audio_file(files, Head(loc[t].tail).id, {}).files
    /\ loc' = [loc EXCEPT ![t].tail = Tail(@)]
    /\ Fixed /\ UNCHANGED <<history, saved, nextId, pc, round>>

\* add_audio, line 92: self.history = self.history[:self.max_files]
AddTrimAssign(t) ==
    /\ pc[t] = "a_trim" /\ loc[t].tail = <<>>
    /\ history' = PySliceTo(history, max_files)
    /\ loc' = Rebound(t)
    /\ Goto(t, "a_save")
    /\ Fixed /\ UNCHANGED <<files, saved, nextId, round>>

\* delete_audio, lines 122-123: the loop finds the entry and its position
BeginDelete(t, id) ==
    /\ CanStart(t)
    /\ StartCall(t, "delete", id, 0)
    /\ LET i == FirstIndex(history, id) IN
       IF i = 0
       THEN UNCHANGED <<pc, loc>>
       ELSE /\ loc' = [loc EXCEPT ![t] = [NoLocals EXCEPT !.op = "delete", !.id = id, !.i = i]]
            /\ Goto(t, "d_file")
    /\ Fixed /\ UNCHANGED <<history, files, saved, nextId>>

\* delete_audio, line 125: _delete_audio_file(entry)
DeleteFile(t) ==
    /\ pc[t] = "d_file"
    /\ files' = _delete_audio_file(files, loc[t].id, {}).files
    /\ Goto(t, "d_pop")
    /\ Fixed /\ UNCHANGED <<history, saved, nextId, loc, round>>

\* delete_audio, line 127: self.history.pop(i); IndexError when the list has
\* become shorter than i (the route answers 500, nothing is saved)
DeletePop(t) ==
    /\ pc[t] = "d_pop"
    /\ IF loc[t].i <= Len(history)
       THEN history' = RemoveAt(history, loc[t].i) /\ Goto(t, "d_save") /\ UNCHANGED loc
       ELSE UNCHANGED history /\ Return(t)
    /\ Fixed /\ UNCHANGED <<files, saved, nextId, round>>

\* get_audio_file, lines 108-110: the loop finds the entry
BeginGetFile(t, id) ==
    /\ CanStart(t)
    /\ StartCall(t, "get_file", id, 0)
    /\ LET i == FirstIndex(history, id) IN
       IF i = 0
       THEN UNCHANGED <<pc, loc>>
       ELSE /\ loc' = [loc EXCEPT ![t] = [NoLocals EXCEPT !.op = "get_file", !.id = id,
                                                        !.entry = <<history[i]>>]]
            /\ Goto(t, "g_exists")
    /\ Fixed /\ UNCHANGED <<history, files, saved, nextId>>

\* get_audio_file, lines 111-112: os.path.exists(filepath)
GetFileExists(t) ==
    /\ pc[t] = "g_exists"
    /\ IF loc[t].id \in files THEN Return(t) ELSE Goto(t, "g_remove") /\ UNCHANGED loc
    /\ Fixed /\ UNCHANGED <<history, files, saved, nextId, round>>

\* get_audio_file, line 115: self.history.remove(entry); ValueError when the
\* entry is no longer in the list
GetFileRemove(t) ==
    /\ pc[t] = "g_remove"
    /\ LET e == loc[t].entry[1] IN
       IF \E i \in DOMAIN history : history[i] = e
       THEN /\ history' = RemoveAt(history, FirstIndex(history, e.id))
            /\ Goto(t, "g_save") /\ UNCHANGED loc
       ELSE UNCHANGED history /\ Return(t)
    /\ Fixed /\ UNCHANGED <<files, saved, nextId, round>>

\* clear_all, lines 135-136: the loop over self.history starts
BeginClear(t) ==
    /\ CanStart(t)
    /\ StartCall(t, "clear", 0, 0)
    /\ loc' = [loc EXCEPT ![t] = [NoLocals EXCEPT !.op = "clear", !.it = 1, !.live = TRUE]]
    /\ Goto(t, "c_loop")
    /\ Fixed /\ UNCHANGED <<history, files, saved, nextId>>

\* clear_all, lines 136-138: one pass of the loop (the list iterator reads
\* position it of the list as it is now)
ClearLoop(t) ==
    /\ pc[t] = "c_loop"
    /\ IF loc[t].it <= Len(View(t))
       THEN /\ files' = _delete_audio_file(files, View(t)[loc[t].it].id, {}).files
            /\ loc' = [loc EXCEPT ![t].it = @ + 1]
            /\ UNCHANGED pc
       ELSE /\ Goto(t, "c_clear")
            /\ loc' = [loc EXCEPT ![t].live = FALSE, ![t].snap = <<>>]
            /\ UNCHANGED files
    /\ Fixed /\ UNCHANGED <<history, saved, nextId, round>>

\* clear_all, line 140: self.history.clear()
ClearClear(t) ==
    /\ pc[t] = "c_clear"
    /\ history' = <<>>
    /\ Goto(t, "c_save")
    /\ Fixed /\ UNCHANGED <<files, saved, nextId, loc, round>>

\* cleanup_old_files, lines 158-166: the cutoff is taken, the loop starts
BeginCleanup(t) ==
    /\ CanStart(t)
    /\ StartCall(t, "cleanup", 0, clock)
    /\ IF auto_cleanup_days <= 0
       THEN UNCHANGED <<pc, loc>>
       ELSE /\ loc' = [loc EXCEPT ![t] = [NoLocals EXCEPT !.op = "cleanup", !.now = clock,
                                                        !.it = 1, !.live = TRUE]]
            /\ Goto(t, "k_loop")
    /\ Fixed /\ UNCHANGED <<history, files, saved, nextId>>

\* cleanup_old_files, lines 166-177: one pass of the loop
CleanupPass(t) ==
    /\ pc[t] = "k_loop"
    /\ IF loc[t].it <= Len(View(t))
       THEN LET acc == CleanupStep([files |-> files,
                                    new_history |-> loc[t].new_history,
                                    removed_count |-> loc[t].removed_count],
                                   View(t)[loc[t].it],
                                   loc[t].now - auto_cleanup_days, {})
            IN /\ files' = acc.files
               /\ loc' = [loc EXCEPT ![t].it = @ + 1,
                                     ![t].new_history = acc.new_history,
                                     ![t].removed_count = acc.removed_count]
               /\ UNCHANGED pc
       ELSE /\ Goto(t, "k_assign")
            /\ loc' = [loc EXCEPT ![t].live = FALSE, ![t].snap = <<>>]
            /\ UNCHANGED files
    /\ Fixed /\ UNCHANGED <<history, saved, nextId, round>>

\* cleanup_old_files, lines 179-180: self.history = new_history
CleanupAssign(t) ==
    /\ pc[t] = "k_assign"
    /\ IF loc[t].removed_count > 0
       THEN /\ history' = loc[t].new_history
            /\ loc' = Rebound(t)
            /\ Goto(t, "k_save")
       ELSE UNCHANGED history /\ Return(t)
    /\ Fixed /\ UNCHANGED <<files, saved, nextId, round>>

\* the closing _save_history() of a call, and its return
SaveAndReturn(t) ==
    /\ pc[t] \in {"a_save", "d_save", "g_save", "c_save", "k_save"}
    /\ saved' = _save_history(Store, "ok").saved
    /\ Return(t)
    /\ Fixed /\ UNCHANGED <<history, files, nextId, round>>

\* every thread is idle again: the next calls form a new round
EndRound ==
    /\ \A t \in Threads : pc[t] = "idle"
    /\ round.calls # <<>>
    /\ round' = NoRound
    /\ Fixed /\ UNCHANGED <<history, files, saved, nextId, pc, loc>>

NextConc ==
    \/ \E t \in Threads :
         \/ BeginAdd(t) \/ AddWrite(t) \/ AddInsert(t) \/ AddCheck(t)
         \/ AddTrimDelete(t) \/ AddTrimAssign(t)
         \/ \E id \in IdSet : BeginDelete(t, id)
         \/ DeleteFile(t) \/ DeletePop(t)
         \/ \E id \in IdSet : BeginGetFile(t, id)
         \/ GetFileExists(t) \/ GetFileRemove(t)
         \/ BeginClear(t) \/ ClearLoop(t) \/ ClearClear(t)
         \/ BeginCleanup(t) \/ CleanupPass(t) \/ CleanupAssign(t)
         \/ SaveAndReturn(t)
    \/ EndRound
    \/ Tick

\* a reliable disk that nobody else touches, auto_cleanup_days = 1
InitConc ==
    InitStore([write |-> FALSE, remove |-> FALSE, save |-> FALSE, oob |-> FALSE], 1)

SpecConc == InitConc /\ [][NextConc]_vars

\* ------------------------------------------- a process that is killed
\* The process can be killed between any two statements of a call and be
\* started again: the index in memory, and the call in progress, are lost;
\* the storage root keeps the payload files and the index file as they are,
\* and __init__ loads the index file.
Crash ==
    /\ history' = _load_history(saved)
    /\ pc' = [t \in Threads |-> "idle"]
    /\ loc' = [t \in Threads |-> NoLocals]
    /\ round' = NoRound
    /\ last' = Ret("crash", 0, TRUE, 0, Len(history), FALSE)
    /\ UNCHANGED <<files, saved, max_files, auto_cleanup_days, nextId, clock, env,
                   added, registryVars, resp, timer, seen, azure,
                   singleton, requests>>

\* one thread calls the store, one call after the other
NextCrash ==
    \/ \E t \in {1} :
         \/ BeginAdd(t) \/ AddWrite(t) \/ AddInsert(t) \/ AddCheck(t)
         \/ AddTrimDelete(t) \/ AddTrimAssign(t)
         \/ \E id \in IdSet : BeginDelete(t, id)
         \/ DeleteFile(t) \/ DeletePop(t)
         \/ \E id \in IdSet : BeginGetFile(t, id)
         \/ GetFileExists(t) \/ GetFileRemove(t)
         \/ BeginClear(t) \/ ClearLoop(t) \/ ClearClear(t)
         \/ BeginCleanup(t) \/ CleanupPass(t) \/ CleanupAssign(t)
         \/ SaveAndReturn(t)
    \/ EndRound
    \/ Tick
    \/ Crash

SpecCrash == InitConc /\ [][NextCrash]_vars

\* -------------------------------------------- reads beside a mutating call
\* GET /api/history runs in a request thread of its own: the threads that
\* only read, beside the others that mutate
Readers == {2}

\* what a read sees at the moment it runs: the index, the statistics, the
\* payload files on disk, and the round of calls it runs in
Snapshot(op) ==
    [op |-> op, history |-> get_history(Store, 0, FALSE), stats |-> get_stats(Store),
     files |-> files, start |-> round.start, calls |-> round.calls]

\* get_history() by a thread that is in no other call
ReadHistory(t) ==
    /\ pc[t] = "idle"
    /\ seen' = Snapshot("get_history")
    /\ UNCHANGED <<storeVars, registryVars, resp, timer, azure,
                   singleton, requests>>

\* get_stats() by a thread that is in no other call
ReadStats(t) ==
    /\ pc[t] = "idle"
    /\ seen' = Snapshot("get_stats")
    /\ UNCHANGED <<storeVars, registryVars, resp, timer, azure,
                   singleton, requests>>

NextConcRead ==
    \/ \E t \in Threads \ Readers :
         \/ BeginAdd(t) \/ AddWrite(t) \/ AddInsert(t) \/ AddCheck(t)
         \/ AddTrimDelete(t) \/ AddTrimAssign(t)
         \/ \E id \in IdSet : BeginDelete(t, id)
         \/ DeleteFile(t) \/ DeletePop(t)
         \/ BeginClear(t) \/ ClearLoop(t) \/ ClearClear(t)
         \/ BeginCleanup(t) \/ CleanupPass(t) \/ CleanupAssign(t)
         \/ SaveAndReturn(t)
    \/ \E t \in Readers : ReadHistory(t) \/ ReadStats(t)
    \/ EndRound
    \/ Tick

\* one thread mutates and one reads, on a reliable disk that nobody else
\* touches
SpecConcRead == InitConc /\ [][NextConcRead]_vars

\* ------------------------------------------------- calls on the registry
\* the texts a caller passes
Texts == {"", "hello"}

\* the registry after a call, and the record of the call: its arguments,
\* how the engine it resolved to ended (out), and what it gave
RegCommit(r, op, arg, text, out) ==
    /\ engines' = r.reg.engines
    /\ current_engine' = r.reg.current_engine
    /\ rlast' = [op |-> op, arg |-> arg, text |-> text, out |-> out, ret |-> r.ret,
                 raised |-> r.raised, invoked |-> r.invoked,
                 was |-> current_engine]
    /\ UNCHANGED probe

SwitchEngine ==
    /\ \E id \in CallerIds \cup {""} :
         RegCommit(switch_engine(Registry, id), "switch", id, "", "none")
    /\ UNCHANGED <<storeVars, resp, timer, seen, azure,
                   singleton, requests>>

GetAvailableEngines ==
    /\ RegCommit(RegRet(Registry, get_available_engines(Registry), NoError, <<>>),
                 "list", None, "", "none")
    /\ UNCHANGED <<storeVars, resp, timer, seen, azure,
                   singleton, requests>>

GetVoices ==
    /\ \E id \in CallerIds \cup {None, ""} :
         RegCommit(get_voices(Registry, id), "voices", id, "", "none")
    /\ UNCHANGED <<storeVars, resp, timer, seen, azure,
                   singleton, requests>>

\* the outcomes of the engine a call resolves to; "none" when the call
\* resolves to no engine
OutcomesFor(reg, engine_id, text) ==
    LET id == Resolve(reg, engine_id) IN
    IF id \in Keys(reg.engines) THEN SynthOutcomes(id, text) ELSE {"none"}

Synthesize ==
    /\ \E id \in CallerIds \cup {None, ""}, text \in Texts :
         \E out \in OutcomesFor(Registry, id, text) :
            RegCommit(synthesize(Registry, id, out), "synthesize", id, text, out)
    /\ UNCHANGED <<storeVars, resp, timer, seen, azure,
                   singleton, requests>>

\* every deployment; the store is not called
InitRegistryOnly ==
    /\ InitHistory([write |-> FALSE, remove |-> FALSE, save |-> FALSE, oob |-> FALSE],
                   DefaultCleanupDays)
    /\ \E pr \in Deployments : InitRegistry(pr)
    /\ resp = NoResponse

NextRegistry ==
    \/ SwitchEngine
    \/ GetAvailableEngines
    \/ GetVoices
    \/ Synthesize

SpecRegistry == InitRegistryOnly /\ [][NextRegistry]_vars

\* --------------------------------------------------- the generate route
\* api_generate: `len(text) > 50000` is refused
TextLimit == 50000

\* the texts of requests: nothing, blanks only, a short text between blanks,
\* a text of TextLimit characters, and one character more
AtLimit == "<TextLimit characters>"
OverLimit == "<TextLimit + 1 characters>"
RequestTexts == {"", "  ", " hello ", AtLimit, OverLimit}

\* str.strip()
strip(raw) ==
    CASE raw = "  "      -> ""
      [] raw = " hello " -> "hello"
      [] OTHER           -> raw

\* len() of a stripped text
len(text) ==
    CASE text = ""        -> 0
      [] text = "hello"   -> 5
      [] text = AtLimit   -> TextLimit
      [] text = OverLimit -> TextLimit + 1

\* how generate_demo_audio can end: its arrays grow with the square of the
\* length of a word without vowels, so a long text can exhaust memory
DemoOutcomes(text) == IF len(text) >= TextLimit THEN {"ok", "raises"} ELSE {"ok"}

\* how sf.write of the audio can end
EncodeOutcomes == {"ok", "raises"}

\* how history_manager.add_audio can end: as WritePayload ends, or raising
ArchiveOutcomes == WriteOutcomes \cup (IF env.write THEN {"raises"} ELSE {})

\* a slip: the audio is the registry's or none, without a fallback
SynthesizeOnly(reg, synthOut, demoOut) ==
    LET s == synthesize(reg, None, synthOut) IN
    [audio |-> s.ret, raised |-> s.raised # NoError, fallbacks |-> 0]

\* api_generate, lines 278-284: the registry's audio, and on any exception
\* the audio of generate_demo_audio, called once
SynthesizeOrDemo(reg, synthOut, demoOut) ==
    LET s == synthesize(reg, None, synthOut) IN
    IF s.raised = NoError
    THEN [audio |-> s.ret, raised |-> FALSE, fallbacks |-> 0]
    ELSE IF demoOut = "ok"
    THEN [audio |-> AudioOf("demo"), raised |-> FALSE, fallbacks |-> 1]
    ELSE [audio |-> NoAudio, raised |-> TRUE, fallbacks |-> 1]

\* a slip: add_audio is called outside a try, and its entry is subscripted
ArchiveUnguarded(st, maxFiles, id, now, arch) ==
    IF arch = "raises" THEN [st |-> st, raised |-> TRUE]
    ELSE LET a == add_audio(st, maxFiles, id, now, arch, {}, "ok")
         IN [st |-> a.st, raised |-> ~a.ok]

\* api_generate, lines 292-302: add_audio inside try/except; an entry of
\* None is logged as 'failed'
Archive(st, maxFiles, id, now, arch) ==
    IF arch = "raises" THEN [st |-> st, raised |-> FALSE]
    ELSE [st |-> add_audio(st, maxFiles, id, now, arch, {}, "ok").st,
          raised |-> FALSE]

\* a response of api_generate, the store it leaves, and how far the handler
\* went: 0 the text was refused, 1 audio was asked for, 2 the audio was
\* encoded, 3 add_audio was called
Response(status, audio, fallbacks, st, steps) ==
    [status |-> status, audio |-> audio, fallbacks |-> fallbacks, st |-> st,
     steps |-> steps]

\* a slip: the stripped text is not tested for emptiness
api_generate_any_text(reg, st, maxFiles, id, now, raw, synthOut, demoOut, encOut, arch) ==
    LET text == strip(raw) IN
    IF len(text) > TextLimit THEN Response(400, NoAudio, 0, st, 0)
    ELSE
      LET a == SynthesizeOrDemo(reg, synthOut, demoOut) IN
      IF a.raised THEN Response(500, NoAudio, a.fallbacks, st, 1)
      ELSE IF encOut = "raises" THEN Response(500, NoAudio, a.fallbacks, st, 2)
      ELSE
        LET h == Archive(st, maxFiles, id, now, arch) IN
        IF h.raised THEN Response(500, NoAudio, a.fallbacks, h.st, 3)
        ELSE Response(200, a.audio, a.fallbacks, h.st, 3)

\* api_generate() on the JSON body {text: raw}, after load_tts_models (the
\* manager object exists, so `if not enhanced_tts_manager` is false)
api_generate(reg, st, maxFiles, id, now, raw, synthOut, demoOut, encOut, arch) ==
    LET text == strip(raw) IN
    IF text = "" THEN Response(400, NoAudio, 0, st, 0)
    ELSE IF len(text) > TextLimit THEN Response(400, NoAudio, 0, st, 0)
    ELSE
      LET a == SynthesizeOrDemo(reg, synthOut, demoOut) IN
      IF a.raised THEN Response(500, NoAudio, a.fallbacks, st, 1)
      ELSE IF encOut = "raises" THEN Response(500, NoAudio, a.fallbacks, st, 2)
      ELSE
        LET h == Archive(st, maxFiles, id, now, arch) IN
        IF h.raised THEN Response(500, NoAudio, a.fallbacks, h.st, 3)
        ELSE Response(200, a.audio, a.fallbacks, h.st, 3)

\* POST /api/generate; an outcome is drawn for each step the handler
\* reaches ("none" for the others); resp records the request, the outcomes
\* and the response
ApiGenerate ==
    /\ nextId <= MaxIds
    /\ \E raw \in RequestTexts :
         LET text == strip(raw)
             accepted == text # "" /\ len(text) <= TextLimit
         IN
         \E synthOut \in (IF accepted THEN OutcomesFor(Registry, None, text)
                          ELSE {"none"}) :
         \E demoOut \in (IF accepted /\ synthOut # "ok" THEN DemoOutcomes(text)
                         ELSE {"none"}) :
         \E encOut \in (IF "ok" \in {synthOut, demoOut} THEN EncodeOutcomes
                        ELSE {"none"}) :
         \E arch \in (IF encOut = "ok" THEN ArchiveOutcomes ELSE {"none"}) :
            LET r == api_generate(Registry, Store, max_files, nextId, clock, raw,
                                  synthOut, demoOut, encOut, arch)
                called == r.steps = 3 /\ arch # "raises"
            IN /\ resp' = [route |-> "generate", status |-> r.status, text |-> raw,
                           synth |-> synthOut,
                           demo |-> demoOut, encode |-> encOut, archive |-> arch,
                           fallbacks |-> r.fallbacks, audio |-> r.audio,
                           engine |-> current_engine]
               /\ history' = r.st.history
               /\ files' = r.st.files
               /\ saved' = r.st.saved
               /\ nextId' = IF called THEN nextId + 1 ELSE nextId
               /\ last' = IF called
                          THEN Ret("add", nextId, arch = "ok", 0, Len(history), FALSE)
                          ELSE last
    /\ added' = <<>>
    /\ UNCHANGED <<max_files, auto_cleanup_days, clock, env, pc, loc, round,
                   registryVars, timer, seen, azure,
                   singleton, requests>>

\* api_download() on the JSON body {text: raw}: the text is stripped and
\* refused when empty, its length is not looked at; the audio is the
\* registry's or the placeholder's, it is written to a temporary file and
\* sent; history_manager is not called
api_download(reg, st, raw, synthOut, demoOut, encOut) ==
    LET text == strip(raw) IN
    IF text = "" THEN Response(400, NoAudio, 0, st, 0)
    ELSE
      LET a == SynthesizeOrDemo(reg, synthOut, demoOut) IN
      IF a.raised THEN Response(500, NoAudio, a.fallbacks, st, 1)
      ELSE IF encOut = "raises" THEN Response(500, NoAudio, a.fallbacks, st, 2)
      ELSE Response(200, a.audio, a.fallbacks, st, 2)

\* POST /api/download
ApiDownload ==
    /\ \E raw \in RequestTexts :
         LET text == strip(raw) IN
         \E synthOut \in (IF text # "" THEN OutcomesFor(Registry, None, text)
                          ELSE {"none"}) :
         \E demoOut \in (IF text # "" /\ synthOut # "ok" THEN DemoOutcomes(text)
                         ELSE {"none"}) :
         \E encOut \in (IF "ok" \in {synthOut, demoOut} THEN EncodeOutcomes
                        ELSE {"none"}) :
            LET r == api_download(Registry, Store, raw, synthOut, demoOut, encOut)
            IN /\ resp' = [route |-> "download", status |-> r.status, text |-> raw,
                           synth |-> synthOut, demo |-> demoOut, encode |-> encOut,
                           archive |-> "none", fallbacks |-> r.fallbacks,
                           audio |-> r.audio, engine |-> current_engine]
               /\ history' = r.st.history
               /\ files' = r.st.files
               /\ saved' = r.st.saved
    /\ UNCHANGED <<max_files, auto_cleanup_days, nextId, clock, env, last, added,
                   pc, loc, round, registryVars, timer, seen, azure,
                   singleton, requests>>

\* POST /api/models/<engine_id>
SwitchModel ==
    /\ \E id \in CallerIds :
         /\ engines' = switch_engine(Registry, id).reg.engines
         /\ current_engine' = switch_engine(Registry, id).reg.current_engine
    /\ UNCHANGED <<storeVars, probe, rlast, resp, timer, seen, azure,
                   singleton, requests>>

\* a deployment with the packages and keys of all engines
Online ==
    [c \in {engine_classes[i] : i \in DOMAIN engine_classes} |-> "available"]

\* with and without the online engines; writing a payload file may fail
InitGenerate ==
    /\ InitHistory([write |-> TRUE, remove |-> FALSE, save |-> FALSE, oob |-> FALSE],
                   DefaultCleanupDays)
    /\ \E pr \in {Offline, Online} : InitRegistry(pr)
    /\ resp = NoResponse

NextGenerate ==
    \/ ApiGenerate
    \/ SwitchModel

SpecGenerate == InitGenerate /\ [][NextGenerate]_vars

\* the generate and the download route together
NextRoutes ==
    \/ ApiGenerate
    \/ ApiDownload
    \/ SwitchModel

SpecRoutes == InitGenerate /\ [][NextRoutes]_vars

\* ---------------------------------------------------- the cleanup thread
\* _start_cleanup_timer starts cleanup_task when auto_cleanup_days > 0:
\* `while True: time.sleep(24 h); try: cleanup_old_files() except Exception`

\* how a call of cleanup_old_files by the thread can end: it raises when
\* self.history is no list any more (an index file edited by hand) or
\* memory runs out
RunOutcomes == {"returned", "raised"}

\* a slip: the call is made outside a try, an exception ends the thread
cleanup_task_uncaught(outcome) == IF outcome = "raised" THEN "dead" ELSE "sleep"

\* where cleanup_task goes after the call: back to the sleep, whether the
\* call returned or its exception was caught and logged
cleanup_task(outcome) == "sleep"

\* time.sleep(24 * 60 * 60) returns: a day has passed (days past the bound
\* of the clock are not told apart)
CleanupTaskSleep ==
    /\ timer.pc = "sleep"
    /\ timer' = [timer EXCEPT !.pc = "run"]
    /\ clock' = Min(clock + 1, auto_cleanup_days + MaxExtraDays)
    /\ UNCHANGED <<history, files, saved, max_files, auto_cleanup_days, nextId,
                   env, last, added, pc, loc, round, registryVars, resp, seen, azure,
                   singleton, requests>>

\* the thread calls cleanup_old_files and goes round the loop
CleanupTaskRun ==
    /\ timer.pc = "run"
    /\ \E outcome \in RunOutcomes :
         /\ timer' = [pc |-> cleanup_task(outcome), ended |-> outcome]
         /\ IF outcome = "returned"
            THEN LET r == cleanup_old_files(Store, auto_cleanup_days, clock, {}, "ok")
                 IN /\ history' = r.st.history
                    /\ files' = r.st.files
                    /\ saved' = r.st.saved
                    /\ last' = Ret("cleanup", 0, r.ok, r.n, Len(history), FALSE)
            ELSE UNCHANGED <<history, files, saved, last>>
    /\ added' = <<>>
    /\ UNCHANGED <<max_files, auto_cleanup_days, nextId, clock, env, pc, loc, round,
                   registryVars, resp, seen, azure,
                   singleton, requests>>

\* a store with and without automatic cleanup, on a reliable disk
InitTimer ==
    /\ \E days \in {0, 1} :
         InitHistory([write |-> FALSE, remove |-> FALSE, save |-> FALSE, oob |-> FALSE],
                     days)
    /\ InitRegistry(Offline)
    /\ resp = NoResponse

\* the thread runs beside the requests that add and delete
NextTimer ==
    \/ CleanupTaskSleep
    \/ CleanupTaskRun
    \/ AddAudio
    \/ DeleteAudio

\* the thread is a daemon thread that the interpreter keeps scheduling and
\* whose sleep returns: each of its steps is taken when it stays enabled
SpecTimer ==
    /\ InitTimer
    /\ [][NextTimer]_vars
    /\ WF_vars(CleanupTaskSleep)
    /\ WF_vars(CleanupTaskRun)

\* ------------------------------------------- the store is obtained
\* get_history_manager() tests the module global and, when it is None,
\* constructs a HistoryManager and assigns it; no lock is held, and __init__
\* reads the index file, so another thread can run between the test and the
\* assignment.  Each cleanup thread that an __init__ started loops for ever.

\* line 224: if history_manager is None (when it is set, the call returns
\* it and nothing has changed)
GetManagerTest(t) ==
    /\ singleton.calls[t] = "idle"
    /\ singleton.history_manager = None
    /\ singleton' = [singleton EXCEPT !.calls[t] = "construct"]
    /\ UNCHANGED <<storeVars, registryVars, resp, timer, seen, azure, requests>>

\* line 225, right-hand side: HistoryManager(), whose __init__ loads the
\* index and calls _start_cleanup_timer
GetManagerConstruct(t) ==
    /\ singleton.calls[t] = "construct"
    /\ singleton' = [singleton EXCEPT
                       !.calls[t] = "assign",
                       !.cleanup_threads = IF auto_cleanup_days > 0
                                           THEN Append(@, "sleep") ELSE @]
    /\ history' = _load_history(saved)
    /\ UNCHANGED <<files, saved, max_files, auto_cleanup_days, nextId, clock, env,
                   last, added, pc, loc, round, registryVars, resp, timer, seen,
                   azure, requests>>

\* line 225, the assignment to the global, and the return of line 226
GetManagerAssign(t) ==
    /\ singleton.calls[t] = "assign"
    /\ singleton' = [singleton EXCEPT !.calls[t] = "idle",
                                      !.history_manager = "HistoryManager"]
    /\ UNCHANGED <<storeVars, registryVars, resp, timer, seen, azure, requests>>

\* the sleep of cleanup thread i returns: a day has passed
CleanupThreadSleep(i) ==
    /\ singleton.cleanup_threads[i] = "sleep"
    /\ singleton' = [singleton EXCEPT !.cleanup_threads[i] = "run"]
    /\ clock' = Min(clock + 1, auto_cleanup_days + MaxExtraDays)
    /\ UNCHANGED <<history, files, saved, max_files, auto_cleanup_days, nextId,
                   env, last, added, pc, loc, round, registryVars, resp, timer,
                   seen, azure, requests>>

\* cleanup thread i calls cleanup_old_files and goes round its loop
CleanupThreadRun(i) ==
    /\ singleton.cleanup_threads[i] = "run"
    /\ singleton' = [singleton EXCEPT !.cleanup_threads[i] = "sleep"]
    /\ LET r == cleanup_old_files(Store, auto_cleanup_days, clock, {}, "ok")
       IN /\ history' = r.st.history
          /\ files' = r.st.files
          /\ saved' = r.st.saved
    /\ UNCHANGED <<max_files, auto_cleanup_days, nextId, clock, env, last, added,
                   pc, loc, round, registryVars, resp, timer, seen, azure, requests>>

NextSingleton ==
    \/ \E t \in Callers :
         \/ GetManagerTest(t)
         \/ GetManagerConstruct(t)
         \/ GetManagerAssign(t)
    \/ \E i \in DOMAIN singleton.cleanup_threads :
         \/ CleanupThreadSleep(i)
         \/ CleanupThreadRun(i)

\* the process before the store is obtained, on a fresh storage root; the
\* store will be constructed with auto_cleanup_days 0 or the default
InitSingleton ==
    /\ singleton = NotObtained
    /\ timer = [pc |-> "none", ended |-> "none"]
    /\ seen = NoRead
    /\ saved = NoIndexFile
    /\ history = <<>>
    /\ files = {}
    /\ max_files = MaxMaxFiles
    /\ auto_cleanup_days \in {0, DefaultCleanupDays}
    /\ nextId = 1
    /\ clock = 0
    /\ env = [write |-> FALSE, remove |-> FALSE, save |-> FALSE, oob |-> FALSE]
    /\ last = Ret("init", 0, TRUE, 0, 0, FALSE)
    /\ added = <<>>
    /\ pc = [t \in Threads |-> "idle"]
    /\ loc = [t \in Threads |-> NoLocals]
    /\ round = NoRound
    /\ InitRegistry(Offline)
    /\ resp = NoResponse

SpecSingleton == InitSingleton /\ [][NextSingleton]_vars

\* ------------------------------------ requests beside a switch of engine
\* The routes run in concurrent request threads and EnhancedTTSManager takes
\* no lock: a switch_engine of one thread can run between any two
\* statements of a generate request or of a synthesize call of another.

\* the threads that serve a generate request or call synthesize; the other
\* request threads switch the engine meanwhile
Requesters == {1}

\* a slip: the engine is looked up under self.current_engine again
DelegateCurrent(reg, id, out) ==
    IF id \notin {None, ""} /\ id \in Keys(reg.engines)
    THEN IF out = "ok"
         THEN RegRet(reg, AudioOf(reg.current_engine), NoError, <<reg.current_engine>>)
         ELSE RegRet(reg, NoAudio, EngineError(reg.current_engine),
                     <<reg.current_engine>>)
    ELSE RegRet(reg, NoAudio, EngineNotAvailable, <<>>)

\* EnhancedTTSManager.synthesize, lines 453-456, on the local engine_id that
\* line 452 has bound to id
Delegate(reg, id, out) ==
    IF id \notin {None, ""} /\ id \in Keys(reg.engines)
    THEN IF out = "ok"
         THEN RegRet(reg, AudioOf(id), NoError, <<id>>)
         ELSE RegRet(reg, NoAudio, EngineError(id), <<id>>)
    ELSE RegRet(reg, NoAudio, EngineNotAvailable, <<>>)

\* the generate requests that have taken no id of the store yet
Pending == Cardinality({t \in Requesters : requests[t].route = "generate"
                                        /\ requests[t].pc # "done"})

\* api_generate, lines 259-275, on the text ' hello ': the text is accepted
\* and current_engine = enhanced_tts_manager.get_current_engine()
BeginGenerate(t) ==
    /\ requests[t].pc = "idle"
    /\ nextId + Pending <= MaxIds
    /\ requests' = [requests EXCEPT ![t] =
                      [NoRequest EXCEPT !.pc = "s_read", !.route = "generate",
                                        !.model_type = current_engine]]
    /\ UNCHANGED <<storeVars, registryVars, resp, timer, seen, azure, singleton>>

\* EnhancedTTSManager.synthesize is called by another caller (api_download
\* gives no engine_id)
BeginSynthesize(t) ==
    /\ requests[t].pc = "idle"
    /\ \E engine_id \in CallerIds \cup {None} :
         requests' = [requests EXCEPT ![t] =
                        [NoRequest EXCEPT !.pc = "s_read", !.route = "synthesize",
                                          !.arg = engine_id]]
    /\ UNCHANGED <<storeVars, registryVars, resp, timer, seen, azure, singleton>>

\* synthesize, line 452: engine_id = engine_id or self.current_engine
SynthRead(t) ==
    /\ requests[t].pc = "s_read"
    /\ requests' = [requests EXCEPT ![t].pc = "s_delegate",
                                    ![t].was = current_engine,
                                    ![t].id = Resolve(Registry, requests[t].arg)]
    /\ UNCHANGED <<storeVars, registryVars, resp, timer, seen, azure, singleton>>

\* synthesize, lines 453-456: the engine is invoked, or ValueError raised;
\* api_generate catches any exception (line 281)
SynthDelegate(t) ==
    /\ requests[t].pc = "s_delegate"
    /\ \E out \in (IF requests[t].id \in Keys(engines)
                   THEN SynthOutcomes(requests[t].id, "hello") ELSE {"none"}) :
         LET r  == Delegate(Registry, requests[t].id, out)
             ok == r.raised = NoError
         IN requests' = [requests EXCEPT
                ![t].invoked = r.invoked,
                ![t].by = IF ok THEN r.ret.by ELSE None,
                ![t].pc = IF requests[t].route = "generate"
                          THEN (IF ok THEN "g_record" ELSE "g_demo")
                          ELSE "done",
                ![t].status = IF requests[t].route = "generate" THEN 0
                              ELSE IF ok THEN 200 ELSE 500]
    /\ UNCHANGED <<storeVars, registryVars, resp, timer, seen, azure, singleton>>

\* api_generate, lines 281-284: audio = generate_demo_audio(text, voice)
GenerateDemo(t) ==
    /\ requests[t].pc = "g_demo"
    /\ requests' = [requests EXCEPT ![t].pc = "g_record", ![t].by = "demo"]
    /\ UNCHANGED <<storeVars, registryVars, resp, timer, seen, azure, singleton>>

\* api_generate, lines 286-313: the audio is encoded, add_audio is called
\* with model_type = current_engine, and the response names current_engine
GenerateRecord(t) ==
    /\ requests[t].pc = "g_record"
    /\ LET h == Archive(Store, max_files, nextId, clock, "ok") IN
       /\ history' = h.st.history
       /\ files' = h.st.files
       /\ saved' = h.st.saved
    /\ last' = Ret("add", nextId, TRUE, 0, Len(history), FALSE)
    /\ nextId' = nextId + 1
    /\ added' = <<>>
    /\ resp' = [route |-> "generate", status |-> 200, text |-> " hello ",
                synth |-> IF requests[t].by = "demo" THEN "raises" ELSE "ok",
                demo |-> IF requests[t].by = "demo" THEN "ok" ELSE "none",
                encode |-> "ok", archive |-> "ok",
                fallbacks |-> IF requests[t].by = "demo" THEN 1 ELSE 0,
                audio |-> AudioOf(requests[t].by),
                engine |-> requests[t].model_type]
    /\ requests' = [requests EXCEPT ![t].pc = "done", ![t].status = 200]
    /\ UNCHANGED <<max_files, auto_cleanup_days, clock, env, pc, loc, round,
                   registryVars, timer, seen, azure, singleton>>

\* the caller has its answer; the thread takes the next request
EndRequest(t) ==
    /\ requests[t].pc = "done"
    /\ requests' = [requests EXCEPT ![t] = NoRequest]
    /\ UNCHANGED <<storeVars, registryVars, resp, timer, seen, azure, singleton>>

NextRequests ==
    \/ \E t \in Requesters :
         \/ BeginGenerate(t)
         \/ BeginSynthesize(t)
         \/ SynthRead(t)
         \/ SynthDelegate(t)
         \/ GenerateDemo(t)
         \/ GenerateRecord(t)
         \/ EndRequest(t)
    \/ SwitchModel

\* with and without the online engines, on a reliable disk
InitRequests ==
    /\ InitHistory([write |-> FALSE, remove |-> FALSE, save |-> FALSE, oob |-> FALSE],
                   DefaultCleanupDays)
    /\ \E pr \in {Offline, Online} : InitRegistry(pr)
    /\ resp = NoResponse

SpecRequests == InitRequests /\ [][NextRequests]_vars

\* -------------------------------------- calls that interleave on an engine
\* The request threads call synthesize of the one engine instance that the
\* registry holds.  AzureTTSEngine.synthesize writes the voice into the
\* SpeechConfig that __init__ made and that all calls share; the other
\* engines keep what they compute in locals (GoogleTTSEngine in a temporary
\* file of its own).

\* the voices that the callers ask for
AzureVoices == {EngineVoices("azure")[1], EngineVoices("azure")[2]}

\* line 217: self.speech_config.speech_synthesis_voice_name = voice
AzureSetVoice(t) ==
    /\ azure.calls[t].pc = "idle"
    /\ \E voice \in AzureVoices :
         azure' = [voice_name |-> voice,
                   calls |-> [azure.calls EXCEPT ![t] =
                                [pc |-> "create", voice |-> voice, uses |-> "", spoke |-> ""]]]
    /\ UNCHANGED <<storeVars, registryVars, resp, timer, seen, singleton, requests>>

\* lines 219-222: SpeechSynthesizer(speech_config = self.speech_config) takes
\* the voice name that the shared config holds now
AzureCreate(t) ==
    /\ azure.calls[t].pc = "create"
    /\ azure' = [azure EXCEPT !.calls[t].pc = "speak",
                              !.calls[t].uses = azure.voice_name]
    /\ UNCHANGED <<storeVars, registryVars, resp, timer, seen, singleton, requests>>

\* lines 224-236: speak_text_async(text).get() and the audio returned
AzureSpeak(t) ==
    /\ azure.calls[t].pc = "speak"
    /\ azure' = [azure EXCEPT !.calls[t].pc = "done",
                              !.calls[t].spoke = azure.calls[t].uses]
    /\ UNCHANGED <<storeVars, registryVars, resp, timer, seen, singleton, requests>>

\* the caller has the audio; the thread takes the next request
AzureReturn(t) ==
    /\ azure.calls[t].pc = "done"
    /\ azure' = [azure EXCEPT !.calls[t] = NoSynthesis.calls[t]]
    /\ UNCHANGED <<storeVars, registryVars, resp, timer, seen, singleton, requests>>

NextAzure ==
    \E t \in Threads :
        \/ AzureSetVoice(t)
        \/ AzureCreate(t)
        \/ AzureSpeak(t)
        \/ AzureReturn(t)

\* a deployment with every engine; azure is registered
InitAzure ==
    /\ InitHistory([write |-> FALSE, remove |-> FALSE, save |-> FALSE, oob |-> FALSE],
                   DefaultCleanupDays)
    /\ InitRegistry(Online)
    /\ resp = NoResponse

SpecAzure == InitAzure /\ [][NextAzure]_vars

\* ---------------------------------------------------- reads between calls
\* the limits of GET /api/history?limit=: request.args.get('limit', type=int)
Limits == 0..(MaxIds + 1)

\* HistoryManager.get_stats(), as the history route and the stats route call it
GetStats ==
    /\ seen' = [op |-> "get_stats", ret |-> get_stats(Store)]
    /\ last' = Ret("stats", 0, TRUE, 0, Len(history), FALSE)
    /\ added' = <<>>
    /\ UNCHANGED <<history, files, saved, max_files, auto_cleanup_days, nextId,
                   clock, env, pc, loc, round, registryVars, resp, timer, azure,
                   singleton, requests>>

\* HistoryManager.get_history(limit), with a limit and without one
GetHistory ==
    /\ \E given \in BOOLEAN :
       \E limit \in (IF given THEN Limits ELSE {0}) :
          seen' = [op |-> "get_history", given |-> given, limit |-> limit,
                   ret |-> get_history(Store, limit, given)]
    /\ last' = Ret("history", 0, TRUE, 0, Len(history), FALSE)
    /\ added' = <<>>
    /\ UNCHANGED <<history, files, saved, max_files, auto_cleanup_days, nextId,
                   clock, env, pc, loc, round, registryVars, resp, timer, azure,
                   singleton, requests>>

NextRead ==
    \/ AddAudio
    \/ DeleteAudio
    \/ ClearAll
    \/ OutOfBandDelete
    \/ GetStats
    \/ GetHistory

SpecRead == Init /\ [][NextRead]_vars

\* ------------------------------------------------ a store that is reopened
\* the process is started again with HistoryManager(max_files = m) on the
\* same storage root: __init__ loads the index that is there
Reopen ==
    /\ \E m \in 1..MaxMaxFiles : max_files' = m
    /\ history' = _load_history(saved)
    /\ last' = Ret("restart", 0, TRUE, 0, Len(history), FALSE)
    /\ added' = <<>>
    /\ UNCHANGED <<files, saved, auto_cleanup_days, nextId, clock, env,
                   pc, loc, round, registryVars, resp, timer, seen, azure,
                   singleton, requests>>

NextReopen ==
    \/ AddAudio
    \/ DeleteAudio
    \/ GetAudioFile
    \/ ClearAll
    \/ CleanupOldFiles
    \/ Reopen
    \/ Tick

\* a reliable disk that nobody else touches
InitReopen ==
    InitStore([write |-> FALSE, remove |-> FALSE, save |-> FALSE, oob |-> FALSE],
              DefaultCleanupDays)

SpecReopen == InitReopen /\ [][NextReopen]_vars

\* ------------------------------------------------------------------ claims
\* the step is a call of op (every call records itself in last; only the
\* clock moves without a call)
Called(op) == last'.op = op /\ clock' = clock

\* the seq without the entries carrying id
Without(h, id) == SelectSeq(h, LAMBDA e : e.id # id)

ApplyCall(c, st) ==
    CASE c.op = "add"      -> add_audio(st, max_files, c.id, c.now, "ok", {}, "ok").st
      [] c.op = "delete"   -> delete_audio(st, c.id, {}, "ok").st
      [] c.op = "get_file" -> get_audio_file(st, c.id, "ok").st
      [] c.op = "clear"    -> clear_all(st, {}, "ok").st
      [] c.op = "cleanup"  -> cleanup_old_files(st, auto_cleanup_days, c.now, {}, "ok").st

\* C2: when two calls of index-mutating operations have run concurrently
\* and both have returned, the index and the set of payload files are those
\* of one of the two serial executions of the two calls.
C2_Serializable ==
    ((\A t \in Threads : pc[t] = "idle") /\ Len(round.calls) = 2) =>
        LET s0  == [history |-> round.start.history, files |-> round.start.files,
                    saved |-> NoIndexFile]
            c1  == round.calls[1]
            c2  == round.calls[2]
            r12 == ApplyCall(c2, ApplyCall(c1, s0))
            r21 == ApplyCall(c1, ApplyCall(c2, s0))
        IN \/ history = r12.history /\ files = r12.files
           \/ history = r21.history /\ files = r21.files

\* C3: with no call in progress and no out-of-band change, while writes and
\* removals may fail, an id is in the index iff its payload file exists.
C3_IndexIffFile == IdsOf(history) = files

C5_EvictsAllAndOnlyExpired ==
    [][ (Called("cleanup") /\ auto_cleanup_days = 7) =>
            history' = SelectSeq(history,
                         LAMBDA e : ~(fromisoformat(e.timestamp).t < clock - 7))
      ]_vars

C7_DeleteTwice ==
    [][ /\ (Called("delete") /\ last'.id \in IdsOf(history)) =>
             (last'.ok /\ last'.id \notin IdsOf(history'))
        /\ (Called("delete") /\ last'.again) =>
             (~last'.ok /\ UNCHANGED <<history, files, saved>>)
      ]_vars

\* C7 witness: the second of two delete_audio calls on the same id, the
\* first of which returned True, returned False
C7_Witness == last.op = "delete" /\ last.again /\ ~last.ok /\ history # <<>>

C9_FailedAddLeavesIndex ==
    [][ /\ (Called("add") /\ ~last'.ok) => UNCHANGED <<history, saved>>
        /\ \A id \in IdsOf(history') \ IdsOf(history) :
             last'.op = "add" /\ last'.ok /\ last'.id = id /\ id \in files'
      ]_vars

\* C9 witness: an add_audio failed on an index that holds an entry
C9_Witness ==
    /\ last.op = "add" /\ ~last.ok /\ history # <<>>
    /\ last.id \notin IdsOf(history)

MarksExactly(listing, id) ==
    /\ Len(listing) = Len(engines)
    /\ \A i \in DOMAIN listing :
         /\ listing[i].id = engines[i]
         /\ listing[i].current = (engines[i] = id)

\* C11: when switch_engine(id) with a registered id is followed by
\* get_available_engines(), the listing reports current = true for exactly
\* that id and current = false for every other registered engine.
C11_SwitchThenList ==
    [][(rlast.op = "switch" /\ rlast.arg \in Keys(engines) /\ rlast'.op = "list")
          => MarksExactly(rlast'.ret, rlast.arg)]_vars

\* a listing of three engines or more whose current engine is not the
\* default one: it was made current by a switch
C11_Witness ==
    /\ rlast.op = "list"
    /\ Len(rlast.ret) >= 3
    /\ \E i \in DOMAIN rlast.ret :
         rlast.ret[i].current /\ rlast.ret[i].id # DefaultEngine(engines)

\* C12: after registration, whatever calls of switch_engine (registered or
\* unregistered id), get_available_engines, get_voices and synthesize
\* (returning or raising) were made, if at least one engine is registered
\* then current_engine is a registered id and the listing marks exactly one
\* engine as current.
C12_OneCurrent ==
    engines # <<>> =>
        LET listing == get_available_engines(Registry) IN
        /\ current_engine \in Keys(engines)
        /\ Cardinality({i \in DOMAIN listing : listing[i].current}) = 1

\* a synthesize call raised after the current engine had been switched away
\* from the default one
C12_Witness ==
    /\ rlast.op = "synthesize"
    /\ rlast.raised # NoError
    /\ engines # <<>>
    /\ current_engine # DefaultEngine(engines)

\* C13: switch_engine(id) with an id that is no registered key returns False
\* without raising and leaves current_engine and the registered engines as
\* they were; it returns True, with current_engine = id afterwards, if and
\* only if id is registered.
C13_SwitchChecksId ==
    [][(rlast'.op = "switch" /\ rlast' # rlast) =>
          LET id == rlast'.arg IN
          /\ rlast'.raised = NoError
          /\ rlast'.ret = (id \in Keys(engines))
          /\ engines' = engines
          /\ current_engine' = (IF id \in Keys(engines) THEN id ELSE current_engine)]_vars

\* a switch to the id of no engine, and a switch to the id of an engine that
\* this deployment could not register, returned False
C13_Witness ==
    /\ rlast.op = "switch"
    /\ rlast.arg \in {UnknownId, "openai"}
    /\ rlast.ret = FALSE
    /\ current_engine = rlast.was
    /\ rlast.was # DefaultEngine(engines)

\* the call resolves to no engine: no engine_id is given and current_engine
\* is unset, or the engine_id given is no registered key
Unresolved(reg, engine_id) ==
    \/ engine_id \in {None, ""} /\ reg.current_engine = None
    \/ engine_id \notin {None, ""} /\ engine_id \notin Keys(reg.engines)

\* a registry in which no candidate was registered
EmptyRegistry == [engines |-> <<>>, current_engine |-> None]

\* C14: synthesize raises ValueError('Engine not available'), without
\* invoking any engine and without changing current_engine, whenever no
\* engine is resolved: no engine_id is given and current_engine is unset, or
\* the engine_id given is not registered (there is no fall back to the
\* current engine then).
C14_UnresolvedRaises ==
    [][/\ (rlast'.op = "synthesize" /\ rlast' # rlast
             /\ Unresolved(Registry, rlast'.arg)) =>
          /\ rlast'.raised = EngineNotAvailable
          /\ rlast'.ret = NoAudio
          /\ rlast'.invoked = <<>>
          /\ current_engine' = current_engine
          /\ engines' = engines
       /\ \A out \in {"ok", "raises"} :
            synthesize(EmptyRegistry, None, out)
               = RegRet(EmptyRegistry, NoAudio, EngineNotAvailable, <<>>)]_vars

\* synthesize was called with the id of no engine, or of an engine that is
\* not registered, while an engine was current
C14_Witness ==
    /\ rlast.op = "synthesize"
    /\ rlast.arg \in {UnknownId, "azure"}
    /\ rlast.arg \notin Keys(engines)
    /\ rlast.raised = EngineNotAvailable
    /\ current_engine \in Keys(engines)

\* C15: when the synthesize of the resolved engine raises, the registry's
\* synthesize raises that same exception to its caller: no other engine is
\* tried, the engine is not invoked again, and current_engine is unchanged.
C15_EngineFailurePropagates ==
    [][(rlast'.op = "synthesize" /\ rlast' # rlast /\ rlast'.out = "raises") =>
          LET id == Resolve(Registry, rlast'.arg) IN
          /\ rlast'.raised = EngineError(id)
          /\ rlast'.ret = NoAudio
          /\ rlast'.invoked = <<id>>
          /\ current_engine' = current_engine
          /\ engines' = engines]_vars

\* an engine raised while other engines were registered
C15_Witness ==
    /\ rlast.op = "synthesize"
    /\ rlast.out = "raises"
    /\ rlast.raised.type = "Exception"
    /\ Len(engines) >= 3
    /\ rlast.raised.from # engines[1]

\* the candidate classes of this deployment that can be constructed and are
\* available, in candidate order
Registrable == SelectSeq(engine_classes, LAMBDA c : probe[c] = "available")

\* C16: after _load_engines, current_engine is 'google' if that engine was
\* registered, otherwise the first registered id in candidate order,
\* otherwise None when no candidate was registered.
C16_DefaultEngine ==
    /\ rlast.op = "load" =>
         current_engine =
            (IF probe["GoogleTTSEngine"] = "available" THEN "google"
             ELSE IF Registrable # <<>> THEN engine_id_of(Registrable[1])
             ELSE None)
    /\ DefaultEngine(<<"coqui", "kitten", "google">>) = "google"
    /\ DefaultEngine(<<>>) = None

\* google could not be registered and later candidates could: the first of
\* them is current
C16_Witness ==
    /\ rlast.op = "load"
    /\ probe["GoogleTTSEngine"] # "available"
    /\ probe["AzureTTSEngine"] = "available"
    /\ current_engine = "coqui"

\* C17: in _load_engines a candidate whose constructor raises or whose
\* is_available() is false is not registered and does not end the loop:
\* every later candidate that is available is registered, so the registered
\* engines are exactly the constructible, available candidates, in
\* candidate order.
C17_RegistersAvailable ==
    engines = [i \in DOMAIN Registrable |-> engine_id_of(Registrable[i])]

\* the constructor of one candidate raised, another was unavailable, and a
\* candidate after both is registered
C17_Witness ==
    /\ rlast.op = "load"
    /\ probe["GoogleTTSEngine"] = "unavailable"
    /\ probe["OpenAITTSEngine"] = "raises"
    /\ probe["AzureTTSEngine"] = "available"
    /\ engines = <<"coqui", "kitten", "azure">>

\* ------------------------------------------- claims on the generate route
\* the last request carried a text that is neither empty nor over the limit
TextAccepted == resp.status # 0 /\ strip(resp.text) # "" /\ len(strip(resp.text)) <= TextLimit

\* the audio the last request had to answer with: the current engine's, or
\* the placeholder's when the registry raised
AudioDue == IF resp.synth = "ok" THEN AudioOf(resp.engine) ELSE AudioOf("demo")

C19_ArchiveFailureIgnored ==
    (resp.encode = "ok" /\ resp.archive \in {"nofile", "partial", "raises"}) =>
        /\ resp.status = 200
        /\ resp.audio = AudioDue

\* add_audio returned None, or raised, after an engine had synthesized
C19_Witness ==
    /\ resp.synth = "ok"
    /\ resp.archive \in {"nofile", "raises"}
    /\ resp.status = 200
    /\ resp.audio = AudioOf(resp.engine)

\* ------------------------------------------- claims on the cleanup thread
\* C20: when auto_cleanup_days > 0 the cleanup thread repeats for ever the
\* cycle 'sleep one interval, then call cleanup_old_files': an exception
\* raised by one call does not end the loop, so after any call (raising or
\* not) another call eventually happens.
C20_CleanupRepeats ==
    /\ []<>(auto_cleanup_days > 0 => timer.pc = "run")
    /\ []<>(auto_cleanup_days > 0 => timer.pc = "sleep")
    /\ [](timer.ended = "raised" => <>(timer.pc = "run"))

\* the call before raised, the thread has slept again and calls anew
C20_Witness ==
    /\ auto_cleanup_days > 0
    /\ timer.ended = "raised"
    /\ timer.pc = "run"

\* ------------------------------------------ claims on the store, continued
\* C21: after every completed operation of the store, and immediately after
\* constructing the store on a storage root whose index file already exists,
\* the index holds at most max_files entries.
C21_AtMostMaxFiles == Len(history) <= max_files

\* C22: a get_history or get_stats call that runs beside an add_audio,
\* delete_audio, clear_all or cleanup_old_files call never sees an
\* intermediate index: it sees the index before that call or the index
\* after it, and so never more than max_files entries and never an entry
\* whose payload file the call in progress has deleted.
C22_ReadsSeeNoIntermediate ==
    (seen.op # "none" /\ Len(seen.calls) = 1) =>
        LET s0 == [history |-> seen.start.history, files |-> seen.start.files,
                   saved |-> NoIndexFile]
            s1 == ApplyCall(seen.calls[1], s0)
        IN /\ seen.history \in {s0.history, s1.history}
           /\ seen.stats.total_files \in {Len(s0.history), Len(s1.history)}
           /\ Len(seen.history) <= max_files
           /\ \A i \in DOMAIN seen.history : seen.history[i].id \in seen.files

\* C23: two synthesize calls that run concurrently on the same engine
\* instance with different voice ids do not interfere: the audio of each
\* call is produced with the voice id passed to that call.
C23_VoiceOfTheCall ==
    \A t \in Threads :
        azure.calls[t].pc = "done" => azure.calls[t].spoke = azure.calls[t].voice

\* ------------------------------------------------- claims on the two routes
\* a request on the generate or the download route was answered
Answered == resp'.route # "none" /\ (resp' # resp \/ nextId' # nextId)

\* C24: every request that is answered with the audio, on the generate or on
\* the download route, leaves exactly one new history entry for it, provided
\* the payload write succeeds: the new entry is the first of the index and
\* it is the only id that the index gained.
C24_EveryAudioRecorded ==
    [][(Answered /\ resp'.status = 200 /\ resp'.archive \in {"ok", "none"}) =>
          /\ history' # <<>>
          /\ history'[1] = Entry(nextId, clock)
          /\ IdsOf(history') \ IdsOf(history) = {nextId}
          /\ nextId' = nextId + 1]_vars

\* ------------------------------------------ claims on the store's counts
\* C25: cleanup_old_files returns exactly the number of entries that the
\* call removed from the index, whether or not the payload file of a removed
\* entry still existed.
C25_CleanupCountsEntries ==
    [][Called("cleanup") => last'.n = Len(history) - Len(history')]_vars

\* C26: clear_all returns the number of payload files it deleted: an entry
\* whose file was already missing leaves the index without an error and is
\* not counted, so the count is at most the number of entries held before.
C26_ClearCountsFiles ==
    [][Called("clear") =>
          /\ last'.ok
          /\ last'.n = Cardinality(IdsOf(history) \cap files)
          /\ last'.n <= Len(history)
          /\ history' = <<>>
          /\ files' = files \ IdsOf(history)]_vars

\* a clear_all of two entries, one of which had lost its file
C26_Witness ==
    /\ last.op = "clear"
    /\ last.had = 2
    /\ last.n = 1
    /\ history = <<>>

\* --------------------------------------- claims on the registry, continued
\* C27: get_voices returns an empty list, without raising, when the call
\* resolves to no engine (no engine_id given and current_engine unset, or the
\* engine_id given is not registered); otherwise it returns the voices of
\* the engine resolved; it changes neither current_engine nor the engines.
C27_VoicesOfResolved ==
    [][/\ (rlast'.op = "voices" /\ rlast' # rlast) =>
          /\ rlast'.raised = NoError
          /\ rlast'.ret = (IF Unresolved(Registry, rlast'.arg) THEN <<>>
                           ELSE EngineVoices(Resolve(Registry, rlast'.arg)))
          /\ rlast'.invoked = <<>>
          /\ current_engine' = current_engine
          /\ engines' = engines
       /\ get_voices(EmptyRegistry, None) = RegRet(EmptyRegistry, <<>>, NoError, <<>>)]_vars

\* get_voices was called with the id of no engine, or of an engine that is
\* not registered, while another engine was current
C27_Witness ==
    /\ rlast.op = "voices"
    /\ rlast.arg \in {UnknownId, "openai"}
    /\ rlast.arg \notin Keys(engines)
    /\ rlast.ret = <<>>
    /\ rlast.raised = NoError
    /\ current_engine \in Keys(engines)

\* ------------------------------------------------- claims on the reads
\* C28: get_stats reports total_files equal to the number of entries of the
\* index and total_size equal to the sum of their sizes, in every state it is
\* called in; the call changes neither the index, in memory or saved, nor a
\* file; after one successful add_audio on an empty store total_files is 1.
C28_StatsOfTheIndex ==
    /\ [](last.op = "stats" =>
            /\ seen.op = "get_stats"
            /\ seen.ret.total_files = Len(history)
            /\ seen.ret.total_size = TotalSize(history))
    /\ []((last.op = "add" /\ last.ok /\ last.had = 0) =>
            get_stats(Store).total_files = 1)
    /\ [][last'.op = "stats" =>
            /\ history' = history
            /\ files' = files
            /\ saved' = saved]_vars

\* get_stats was called on an index of two entries, one of which had lost
\* its file
C28_Witness ==
    /\ last.op = "stats"
    /\ seen.ret.total_files = 2
    /\ seen.ret.total_size = PayloadBytes(history[1].id) + PayloadBytes(history[2].id)
    /\ Cardinality(files) = 1

\* C29: get_history(limit) returns the first min(limit, n) entries of the n
\* entries of the index, newest first, for every integer limit >= 0, and the
\* whole index when no limit is given; it changes neither the index nor a
\* file.
C29_FirstLimitEntries ==
    /\ [](last.op = "history" =>
            LET n == Len(history) IN
            seen.ret = (IF seen.given THEN SubSeq(history, 1, Min(seen.limit, n))
                        ELSE history))
    /\ [][last'.op = "history" =>
            /\ history' = history
            /\ files' = files
            /\ saved' = saved]_vars

\* ------------------------------------------- claims on the entry of an add
\* C30: after a successful add_audio (max_files >= 1) the index begins with
\* the new entry: its text is the first PreviewLimit characters of the text
\* (the whole text when it is shorter), its full_text is the whole text and
\* its size is the length of the payload; the entries that remain are the
\* newest of the entries held before, in the order they had.
C30_NewEntryFirst ==
    [][(Called("add") /\ last'.ok) =>
          LET id   == last'.id
              text == TextOf(id)
              new  == history'[1]
          IN /\ max_files >= 1
             /\ history' # <<>>
             /\ new.id = id
             /\ new.text = [from |-> 0,
                            len |-> IF text.len < PreviewLimit THEN text.len
                                    ELSE PreviewLimit]
             /\ new.full_text = text
             /\ new.size = PayloadBytes(id)
             /\ Tail(history') = SubSeq(history, 1, Len(history') - 1)]_vars

\* a text longer than PreviewLimit was added to a full index: the oldest
\* entry left, the other one follows the new entry
C30_Witness ==
    /\ last.op = "add"
    /\ last.ok
    /\ last.id = 3
    /\ Len(history) = 2
    /\ history[1].full_text.len = PreviewLimit + 3
    /\ history[1].text = [from |-> 0, len |-> PreviewLimit]
    /\ history[2].id = 2

\* ----------------------------------------- claims on a process that is killed
\* C31: when the process is killed at any point inside add_audio,
\* delete_audio, clear_all or cleanup_old_files, the index that the restart
\* loads holds no entry whose payload file is gone; a payload file without
\* an entry is tolerated.
C31_NoEntryWithoutFile ==
    [][Crash => IdsOf(history') \subseteq files']_vars

\* ------------------------------------------ claims on the cleanup threads
\* C32: at most one cleanup thread exists in the process at any time:
\* repeated or concurrent calls of get_history_manager start no second one,
\* and none is started when auto_cleanup_days <= 0.
C32_OneCleanupThread ==
    /\ Len(singleton.cleanup_threads) <= 1
    /\ auto_cleanup_days <= 0 => singleton.cleanup_threads = <<>>

\* ------------------------------ claims on requests beside a switch of engine
\* the registry's synthesize of thread t has delegated, or raised
Delegated(t) == requests[t].pc \in {"g_demo", "g_record", "done"}

\* C33: a synthesize call of the registry that runs beside switch_engine
\* delegates wholly to one engine: the engine it invokes is the one whose id
\* it resolved, which is, when no engine_id is given, the engine that was
\* current at the one moment the call read current_engine; a switch after
\* that read does not affect the call.
C33_OneEngineRead ==
    \A t \in Requesters :
        Delegated(t) =>
            LET q == requests[t] IN
            /\ q.id = (IF q.arg = None THEN q.was ELSE q.arg)
            /\ q.invoked = (IF q.id \in Keys(engines) THEN <<q.id>> ELSE <<>>)
            /\ q.by \in {q.id, "demo", None}

\* a call without engine_id delegated to the engine it had read, after
\* another thread had switched to another engine
C33_Witness ==
    \E t \in Requesters :
        /\ Delegated(t)
        /\ requests[t].arg = None
        /\ requests[t].invoked = <<requests[t].was>>
        /\ requests[t].by = requests[t].was
        /\ current_engine # requests[t].was

\* C38: the engine id that a generate request stores in its history entry
\* (model_type) and returns in its response names the producer of the audio,
\* also when another request switches the engine between the handler's read
\* of the current engine and the registry's synthesis, and when the audio is
\* the placeholder's.
C38_EngineNamesProducer ==
    \A t \in Requesters :
        (requests[t].route = "generate" /\ requests[t].pc = "done") =>
            /\ requests[t].model_type = requests[t].by
            /\ resp.engine = requests[t].by

\* --------------------------------------- claims on the order of the index
\* C34: in every state the index is ordered by timestamp, newest first (the
\* timestamps do not increase along the list), the clock never going back;
\* also when add_audio calls of concurrent request threads interleave between
\* taking the timestamp and inserting the entry.
C34_NewestFirst ==
    \A i, j \in DOMAIN history :
        i < j => fromisoformat(history[i].timestamp).t
                    >= fromisoformat(history[j].timestamp).t

\* ------------------------------------------------ claims on the cleanup
\* C35: with auto_cleanup_days <= 0, cleanup_old_files returns 0 and changes
\* neither the index in memory, nor the index file, nor a payload file,
\* however old the entries are.
C35_NoCleanupWithoutAge ==
    [][(Called("cleanup") /\ auto_cleanup_days <= 0) =>
          /\ last'.n = 0
          /\ history' = history
          /\ saved' = saved
          /\ files' = files]_vars

\* cleanup_old_files returned 0 on an index with an entry older than the
\* cutoff that auto_cleanup_days would give, its file in place
C35_Witness ==
    /\ last.op = "cleanup"
    /\ last.n = 0
    /\ auto_cleanup_days <= 0
    /\ \E i \in DOMAIN history :
         /\ fromisoformat(history[i].timestamp).t < clock - auto_cleanup_days
         /\ history[i].id \in files

\* the entries of index h whose timestamp cannot be parsed
Unparsed(h) == {h[i] : i \in {k \in DOMAIN h : fromisoformat(h[k].timestamp).raised}}

\* C36: cleanup_old_files never removes an entry whose timestamp is missing
\* or cannot be parsed: the entry is in the index and its payload file on
\* disk after the call as before, also when the call evicts other entries.
C36_UnparsedKept ==
    [][Called("cleanup") =>
          \A e \in Unparsed(history) :
              /\ \E i \in DOMAIN history' : history'[i] = e
              /\ e.id \in files => e.id \in files']_vars

\* a cleanup_old_files call evicted an entry and left another one, whose
\* timestamp cannot be parsed, with its file
C36_Witness ==
    /\ last.op = "cleanup"
    /\ last.n >= 1
    /\ last.had = 2
    /\ \E e \in Unparsed(history) : e.id \in files

\* ------------------------------- claims on the generate route, continued
\* C37: a generate request whose text is empty or consists of white space
\* is refused with status 400 before an engine or the placeholder is
\* invoked, and leaves the index, the index file, the payload files and
\* current_engine as they were.
C37_EmptyTextRefused ==
    [][(Answered /\ resp'.route = "generate" /\ strip(resp'.text) = "") =>
          /\ resp'.status = 400
          /\ resp'.audio = NoAudio
          /\ resp'.synth = "none" /\ resp'.demo = "none" /\ resp'.fallbacks = 0
          /\ history' = history
          /\ saved' = saved
          /\ files' = files
          /\ nextId' = nextId
          /\ current_engine' = current_engine
          /\ engines' = engines]_vars

\* a text of blanks was refused by a store that holds an entry
C37_Witness ==
    /\ resp.route = "generate"
    /\ resp.text = "  "
    /\ resp.status = 400
    /\ history # <<>>
    /\ files # {}

\* ------------------------------------ claims on the entry that add returns
\* C39: whenever add_audio returns an entry, that entry is in the index and
\* its payload file exists at the moment of the return, whatever max_files
\* the store was constructed with (also 0 or less).
C39_ReturnedEntryStored ==
    [][(Called("add") /\ last'.ok) =>
          /\ \E i \in DOMAIN history' : history'[i].id = last'.id
          /\ last'.id \in files']_vars

=============================================================================
